---- MODULE Spec2Model ----
(***************************************************************************)
(* Incremental sentiment backfill of the Reddit corpus.                    *)
(*                                                                         *)
(* The module models                                                       *)
(*   - scripts/init_sentiment.py : analyze_posts, the paged backfill       *)
(*   - backend/app/sentiment_analyzer.py : clean_text, normalize_scores,   *)
(*     analyze_text                                                        *)
(*   - backend/app/sentiment.py : normalize                                *)
(*   - backend/app/models.py : the posts / post_sentiments tables          *)
(***************************************************************************)
EXTENDS Integers, Sequences, FiniteSets, Bags, TLC

\* ------------------------------------------------------------------ bounds
MaxPosts == 2
MaxBacklog == 3
MaxOverlapPosts == 1
MaxBatch == 2
MaxTime == 2
MaxWords == 2
MaxKeys == 2
MaxNum == 2
MaxQuietPosts == 4
MaxLivePosts == 2
MaxComments == 3
MaxCeiling == 2
MaxClock == 2
MaxMainPosts == 1
MaxMainComments == 1
MaxChars == 2
MaxTermPosts == 1
MaxTermComments == 1
MaxRetriggerPosts == 1
MaxRetriggerClock == 1
MaxMatches == 1
MaxSubmissions == 1
MaxHarvestPosts == 3
MaxRuns == 2
MaxPredictPosts == 2
MaxDagPosts == 1
MaxDagComments == 1
MaxDagRuns == 1

Procs == {"A", "B"}

\* ----------------------------------------------------------------- helpers
Min(a, b) == IF a < b THEN a ELSE b

Range(s) == {s[i] : i \in 1..Len(s)}

RECURSIVE GCD(_, _)
GCD(a, b) == IF b = 0 THEN a ELSE GCD(b, a % b)

\* A score is a rational <<numerator, denominator>> in lowest terms.
\* The Python value None is the pair with denominator 0.
NoneScore == <<0, 0>>

Rat(n, d) == IF n = 0 THEN <<0, 1>> ELSE <<n \div GCD(n, d), d \div GCD(n, d)>>

\* v / word_count on floats, word_count # 0
RatDiv(v, k) == Rat(v[1], v[2] * k)

RatGreater(a, b) == a[1] * b[2] > b[1] * a[2]

\* ------------------------------------------------------------------- texts
\* A text is None or a string over a three-letter alphabet: a blank, a word
\* character and the hash sign.
None == [none |-> TRUE, chars |-> <<>>]

Str(s) == [none |-> FALSE, chars |-> s]

IsSpace(c) == c = " "

RECURSIVE lstrip(_)
lstrip(s) == IF s # <<>> /\ IsSpace(Head(s)) THEN lstrip(Tail(s)) ELSE s

RECURSIVE rstrip(_)
rstrip(s) ==
    IF s # <<>> /\ IsSpace(s[Len(s)]) THEN rstrip(SubSeq(s, 1, Len(s) - 1)) ELSE s

strip(s) == rstrip(lstrip(s))

\* number of leading non-blank characters: the extent of \S+
RECURSIVE NonSpaceRun(_)
NonSpaceRun(s) ==
    IF s = <<>> \/ IsSpace(Head(s)) THEN 0 ELSE 1 + NonSpaceRun(Tail(s))

\* re.sub(r"#\S+", "", s)
RECURSIVE SubHash(_)
SubHash(s) ==
    IF s = <<>> THEN <<>>
    ELSE IF Head(s) = "#" /\ NonSpaceRun(Tail(s)) > 0
         THEN SubHash(SubSeq(s, 2 + NonSpaceRun(Tail(s)), Len(s)))
         ELSE <<Head(s)>> \o SubHash(Tail(s))

\* re.sub(" +", " ", s)
RECURSIVE SubSpaces(_)
SubSpaces(s) ==
    IF s = <<>> THEN <<>>
    ELSE IF IsSpace(Head(s)) THEN <<" ">> \o SubSpaces(lstrip(s))
         ELSE <<Head(s)>> \o SubSpaces(Tail(s))

\* s.split(): the maximal runs of non-blank characters
RECURSIVE split(_)
split(s) ==
    LET t == lstrip(s) IN
    IF t = <<>> THEN <<>>
    ELSE <<SubSeq(t, 1, NonSpaceRun(t))>> \o split(SubSeq(t, NonSpaceRun(t) + 1, Len(t)))

\* ' '.join(words)
RECURSIVE join(_)
join(ws) ==
    IF ws = <<>> THEN <<>>
    ELSE IF Len(ws) = 1 THEN ws[1] ELSE ws[1] \o <<" ">> \o join(Tail(ws))

IsPunct(w) == \A i \in 1..Len(w) : w[i] = "#"

RECURSIVE DropPunct(_)
DropPunct(ws) ==
    IF ws = <<>> THEN <<>>
    ELSE IF IsPunct(Head(ws)) THEN DropPunct(Tail(ws))
         ELSE <<Head(ws)>> \o DropPunct(Tail(ws))

clean_text(s) ==
    LET clean == SubSpaces(SubHash(s)) IN
    [clean |-> clean,
     lemma |-> join(DropPunct(split(clean))),
     char_count |-> Len(clean),
     word_count |-> Len(split(clean))]

\* ------------------------------------------------------------ aggregation
\* A distribution is a dict: the sequence of its <<label, score>> items in
\* insertion order.

\* key=lambda x: x[1] if x[1] is not None else 0
Key(x) == IF x[2] = NoneScore THEN <<0, 1>> ELSE x[2]

\* a max that keeps the last item of maximal key
RECURSIVE MaxFrom_LastWins(_, _, _)
MaxFrom_LastWins(items, i, best) ==
    IF i > Len(items) THEN best
    ELSE MaxFrom_LastWins(items, i + 1,
                          IF RatGreater(Key(best), Key(items[i])) THEN best ELSE items[i])

\* max(items, key=Key, default=default): the first item of maximal key
RECURSIVE MaxFrom(_, _, _)
MaxFrom(items, i, best) ==
    IF i > Len(items) THEN best
    ELSE MaxFrom(items, i + 1,
                 IF RatGreater(Key(items[i]), Key(best)) THEN items[i] ELSE best)

max(items, default) ==
    IF items = <<>> THEN default ELSE MaxFrom(items, 2, items[1])

\* a top label that is the first key of the dictionary, whatever its score
top_category_FirstKey(scores) == IF scores = <<>> THEN "unknown" ELSE scores[1][1]

\* max(scores.items(), key=..., default=("unknown", 0))[0]
top_category(scores) == max(scores, <<"unknown", <<0, 1>>>>)[1]

\* a normalize_scores that returns {} for a word count of zero
normalize_scores_EmptyAtZero(scores, word_count) ==
    IF word_count = 0 THEN <<>>
    ELSE [i \in 1..Len(scores) |-> <<scores[i][1], RatDiv(scores[i][2], word_count)>>]

\* if word_count == 0: return scores; else {k: v / word_count}
normalize_scores(scores, word_count) ==
    IF word_count = 0 THEN scores
    ELSE [i \in 1..Len(scores) |-> <<scores[i][1], RatDiv(scores[i][2], word_count)>>]

normalize(sentiment, wordcount) ==
    IF wordcount > 0
    THEN [i \in 1..Len(sentiment) |-> <<sentiment[i][1], RatDiv(sentiment[i][2], wordcount)>>]
    ELSE <<>>

\* --------------------------------------------------------------- scorers
\* What one run of the three scorers on a text produces: each either returns
\* a distribution or raises.
Raises == [ok |-> FALSE, dist |-> <<>>]

Returns(d) == [ok |-> TRUE, dist |-> d]

\* sentiment_config.id2label order: negative, neutral, positive
SentimentOutputs ==
    { <<<<"negative", <<1, 2>>>>, <<"neutral", <<0, 1>>>>, <<"positive", <<1, 2>>>>>> }

\* emotion_keywords order
EmotionOutputs ==
    { <<<<"joy", <<1, 2>>>>, <<"sadness", <<0, 1>>>>, <<"anger", <<0, 1>>>>,
        <<"fear", <<0, 1>>>>, <<"surprise", <<0, 1>>>>, <<"other", <<1, 2>>>>>> }

\* hate_keywords order
HateOutputs ==
    { <<<<"hateful", <<0, 1>>>>, <<"offensive", <<0, 1>>>>,
        <<"targeted_hate", <<0, 1>>>>, <<"none", <<1, 1>>>>>> }

\* The scorers run in the order sentiment, emotion, hate speech, and the first
\* one that raises ends the call: a run is all three returning, or one raising.
ScorerRuns ==
    {[sentiment |-> Returns(s), emotion |-> Returns(e), hate_speech |-> Returns(h)] :
        s \in SentimentOutputs, e \in EmotionOutputs, h \in HateOutputs}
    \cup {[sentiment |-> Raises, emotion |-> Raises, hate_speech |-> Raises]}
    \cup {[sentiment |-> Returns(s), emotion |-> Raises, hate_speech |-> Raises] :
            s \in SentimentOutputs}
    \cup {[sentiment |-> Returns(s), emotion |-> Returns(e), hate_speech |-> Raises] :
            s \in SentimentOutputs, e \in EmotionOutputs}

\* an emptiness test that forgets the strip: `not text`
IsEmptyText_NoStrip(text) == text.none \/ text.chars = <<>>

\* `not text or text.strip() == ""`
IsEmptyText(text) == text.none \/ text.chars = <<>> \/ strip(text.chars) = <<>>

\* number of scorer calls analyze_text makes
ScorerCalls(text, run) ==
    IF IsEmptyText(text) THEN 0
    ELSE IF ~run.sentiment.ok THEN 1
    ELSE IF ~run.emotion.ok THEN 2
    ELSE 3

\* an analyze_text that swallows a scorer's exception and returns what it has
analyze_text_Swallows(text, run) ==
    IF IsEmptyText(text)
    THEN [raised |-> FALSE,
          cleaned |-> [clean |-> <<>>, lemma |-> <<>>, char_count |-> 0, word_count |-> 0],
          sentiment |-> <<>>, normalized_sentiment |-> <<>>,
          emotion |-> <<>>, normalized_emotion |-> <<>>,
          hate_speech |-> <<>>, normalized_hate_speech |-> <<>>]
    ELSE LET cleaned == clean_text(text.chars)
             word_count == cleaned.word_count
         IN  [raised |-> FALSE,
              cleaned |-> cleaned,
              sentiment |-> run.sentiment.dist,
              normalized_sentiment |-> normalize_scores(run.sentiment.dist, word_count),
              emotion |-> run.emotion.dist,
              normalized_emotion |-> normalize_scores(run.emotion.dist, word_count),
              hate_speech |-> run.hate_speech.dist,
              normalized_hate_speech |-> normalize_scores(run.hate_speech.dist, word_count)]

\* analyze_text(text), given what the scorers do on this call.  The result
\* is either an exception (raised) or the dictionary of results.
analyze_text(text, run) ==
    IF IsEmptyText(text)
    THEN [raised |-> FALSE,
          cleaned |-> [clean |-> <<>>, lemma |-> <<>>, char_count |-> 0, word_count |-> 0],
          sentiment |-> <<>>, normalized_sentiment |-> <<>>,
          emotion |-> <<>>, normalized_emotion |-> <<>>,
          hate_speech |-> <<>>, normalized_hate_speech |-> <<>>]
    ELSE LET cleaned == clean_text(text.chars)
             word_count == cleaned.word_count
         IN  IF run.sentiment.ok /\ run.emotion.ok /\ run.hate_speech.ok
             THEN [raised |-> FALSE,
                   cleaned |-> cleaned,
                   sentiment |-> run.sentiment.dist,
                   normalized_sentiment |-> normalize_scores(run.sentiment.dist, word_count),
                   emotion |-> run.emotion.dist,
                   normalized_emotion |-> normalize_scores(run.emotion.dist, word_count),
                   hate_speech |-> run.hate_speech.dist,
                   normalized_hate_speech |-> normalize_scores(run.hate_speech.dist, word_count)]
             ELSE [raised |-> TRUE,
                   cleaned |-> cleaned,
                   sentiment |-> <<>>, normalized_sentiment |-> <<>>,
                   emotion |-> <<>>, normalized_emotion |-> <<>>,
                   hate_speech |-> <<>>, normalized_hate_speech |-> <<>>]

\* whether a scorer raises during analyze_text(text)
ScorerRaises(text, run) ==
    ~IsEmptyText(text) /\ ~(run.sentiment.ok /\ run.emotion.ok /\ run.hate_speech.ok)

\* ------------------------------------------------------------------ state
Titles == {Str(<<" ">>), Str(<<"x", " ", "x">>)}

Labels == {"a", "b", "c"}

VARIABLES
    Post,           \* table posts: row i has id i
    PostSentiment,  \* table post_sentiments: the bag of its rows
    pc,             \* per invocation: "idle", "fetch", "loop", "commit"
    exit,           \* how the invocation before ended, while nothing has happened since:
                    \* "complete", "failed" (commit), "between" / "midpage" (killed)
    batch_size,
    offset,
    posts,          \* the page being processed
    idx,            \* position of the loop in the page
    session,        \* rows added to the session and not yet committed
    scored,         \* whether a scorer was called for the item analyzed last
    failed,         \* items of the current page for which a scorer raised
    made,           \* post ids this invocation has committed
    dirty,          \* the invocation was not alone, or saw an insert or a failure
    lost,           \* page in flight when the invocation before was killed or its
                    \* commit failed, its size,
                    \* and whether that invocation saw an insert or a failure
    after,          \* exit of the invocation this one directly follows
    redo,           \* posts of that page not fetched again yet (same page size only)
    now,            \* the clock, datetime.utcnow()
    current_time,   \* per invocation of analyze_posts: the clock reading it took
    fetched_at,     \* per invocation: the clock when the current page was fetched
    Comment,        \* table comments: the number of its rows, ids 1..Comment, a
                    \* later comment having the larger id and created_utc
    CommentSentiment, \* table comment_sentiments: the comment ids that have a row
    c_pc,           \* analyze_comments: "idle", "while", "loop", "commit"
    max_comments,
    total_comments,
    c_batch_size,
    c_offset,
    comments,       \* the page of comments being processed
    c_idx,
    c_session,      \* comment ids whose row is added and not yet committed
    analyzed,       \* number of analyze_text calls of this invocation of analyze_comments
    m_pc,           \* the script: "off", "import", "init", "posts", "in_posts",
                    \* "comments", "in_comments"
    exit_code,      \* exit status of the script run last, -1 while there is none
    cause,          \* what made that run end: "none", "import", "unreachable", "ddl"
    in_scores,      \* a distribution handed to the aggregation functions
    in_word_count,  \* a word count handed to them
    applied,        \* the aggregation functions that have run
    out_normalize_scores,
    out_normalize,
    out_top,
    in_text,        \* a text handed to analyze_text
    in_run,         \* what the scorers do on that call
    out_analyze_text,
    in_request,     \* a request handed to the application
    out_response,   \* its answer: the status and the keys of the JSON object
    in_lexicon,     \* what a lexicon scorer finds in a text: keyword counts and valence
    out_lexicon,    \* the distribution it returns
    task,           \* the run of the enhanced DAG: the state of each task instance
    try_number,     \* the attempts each of them has made
    dag_run,        \* the number of runs of the DAG so far
    Prediction,     \* table predictions: row i has id i
    pe_pc,          \* predict_emotions: "idle", "loop", "commit"
    pe_dag,         \* the DAG file whose predict_emotions is running
    pe_posts,       \* session.query(Post).all()
    pe_idx,
    pe_session,     \* the rows added and not yet committed
    pe_ok,          \* the posts whose classification returned in this call
    dp_pc,          \* analyze_posts of the DAG: "idle", "loop", "commit"
    dp_posts,
    dp_idx,
    dp_session

store == <<Post, PostSentiment>>
locals == <<batch_size, offset, posts, idx, session>>
history == <<scored, failed, made, dirty, lost, after, redo>>
agg == <<in_scores, in_word_count, applied, out_normalize_scores, out_normalize, out_top,
         in_text, in_run, out_analyze_text, in_request, out_response, in_lexicon,
         out_lexicon>>
clock == <<now, current_time, fetched_at>>
cmt == <<Comment, CommentSentiment, c_pc, max_comments, total_comments, c_batch_size,
         c_offset, comments, c_idx, c_session, analyzed>>
backfill == <<store, pc, exit, locals, history, clock>>
sched == <<task, try_number, dag_run>>
predict == <<Prediction, pe_pc, pe_dag, pe_posts, pe_idx, pe_session, pe_ok>>
dagposts == <<dp_pc, dp_posts, dp_idx, dp_session>>
dag == <<sched, predict, dagposts>>
script == <<m_pc, exit_code, cause, dag>>
vars == <<backfill, cmt, agg, script>>

PostIds == 1..Len(Post)

Rows == BagToSet(PostSentiment)

HasRecord(id) == \E r \in Rows : r.post_id = id

\* a query without the anti-join: every post
AllPosts == PostIds

\* session.query(Post).outerjoin(PostSentiment).filter(PostSentiment.id == None)
Unanalyzed == {id \in PostIds : ~HasRecord(id)}

Perms(S) ==
    {f \in [1..Cardinality(S) -> S] : \A i, j \in 1..Cardinality(S) : f[i] = f[j] => i = j}

\* .order_by(Post.created_utc.desc()): rows of equal created_utc come in any order
OrderByCreatedDesc(S) ==
    {f \in Perms(S) :
        \A i \in 1..(Cardinality(S) - 1) : Post[f[i]].created_utc >= Post[f[i + 1]].created_utc}

\* a page query that starts one row late
LimitOffset_OneLate(rows, limit, off) == SubSeq(rows, off + 2, Min(off + 1 + limit, Len(rows)))

\* .limit(batch_size).offset(offset)
LimitOffset(rows, limit, off) == SubSeq(rows, off + 1, Min(off + limit, Len(rows)))

Active(p) == pc[p] # "idle"

NoLoss == <<{}, 0, FALSE>>

Others(p) == {q \in Procs \ {p} : Active(q)}

InitBackfill ==
    /\ Post = <<>>
    /\ PostSentiment = EmptyBag
    /\ pc = [p \in Procs |-> "idle"]
    /\ exit = "none"
    /\ batch_size = [p \in Procs |-> 1]
    /\ offset = [p \in Procs |-> 0]
    /\ posts = [p \in Procs |-> <<>>]
    /\ idx = [p \in Procs |-> 1]
    /\ session = [p \in Procs |-> <<>>]
    /\ scored = [p \in Procs |-> FALSE]
    /\ failed = [p \in Procs |-> {}]
    /\ made = [p \in Procs |-> {}]
    /\ dirty = [p \in Procs |-> FALSE]
    /\ lost = NoLoss
    /\ after = [p \in Procs |-> "none"]
    /\ redo = [p \in Procs |-> {}]
    /\ now = 0
    /\ current_time = [p \in Procs |-> 0]
    /\ fetched_at = [p \in Procs |-> 0]

InitComments ==
    /\ Comment = 0
    /\ CommentSentiment = {}
    /\ c_pc = "idle"
    /\ max_comments = 0
    /\ total_comments = 0
    /\ c_batch_size = 1
    /\ c_offset = 0
    /\ comments = <<>>
    /\ c_idx = 1
    /\ c_session = <<>>
    /\ analyzed = 0

\* no request at hand
NoRequest == [method |-> "GET", path |-> "/health", query |-> None, json |-> None]

NoLexicon == [scorer |-> "none"]

InitAgg ==
    /\ applied = {}
    /\ out_normalize_scores = <<>>
    /\ out_normalize = <<>>
    /\ out_top = "unset"
    /\ out_analyze_text = <<>>
    /\ out_response = <<>>
    /\ in_lexicon = NoLexicon
    /\ out_lexicon = <<>>

Tasks == {"fetch_reddit", "predict_emotion_legacy", "analyze_posts", "analyze_comments"}

InitDag ==
    /\ task = [t \in Tasks |-> "none"]
    /\ try_number = [t \in Tasks |-> 0]
    /\ dag_run = 0
    /\ Prediction = <<>>
    /\ pe_pc = "idle"
    /\ pe_dag = "none"
    /\ pe_posts = <<>>
    /\ pe_idx = 1
    /\ pe_session = <<>>
    /\ pe_ok = {}
    /\ dp_pc = "idle"
    /\ dp_posts = <<>>
    /\ dp_idx = 1
    /\ dp_session = <<>>

InitScript ==
    /\ m_pc = "off"
    /\ exit_code = -1
    /\ cause = "none"
    /\ InitDag

Init ==
    /\ InitBackfill
    /\ InitComments
    /\ InitScript
    /\ InitAgg
    /\ in_scores = <<>>
    /\ in_word_count = 0
    /\ in_text = None
    /\ in_run = [sentiment |-> Raises, emotion |-> Raises, hate_speech |-> Raises]
    /\ in_request = NoRequest

\* The harvester stores a new post (reddit_client.fetch_subreddit_data).
InsertPost(cap, maxtime) ==
    /\ Len(Post) < cap
    /\ \E t \in Titles, c \in 1..maxtime :
          Post' = Append(Post, [title |-> t, created_utc |-> c])
    /\ dirty' = [p \in Procs |-> Active(p)]
    /\ exit' = "none"
    /\ lost' = NoLoss
    /\ made' = [p \in Procs |-> IF Active(p) THEN made[p] ELSE {}]
    /\ after' = [p \in Procs |-> IF Active(p) THEN after[p] ELSE "none"]
    /\ redo' = [p \in Procs |-> IF Active(p) THEN redo[p] ELSE {}]
    /\ UNCHANGED <<PostSentiment, pc, locals, scored, failed, clock, cmt, agg, script>>

\* The invocation is over: session.close(), and its variables are gone.  Of an
\* invocation that ran alone, to its end or until it was killed, what it followed
\* and what it committed stay on record until the next thing happens.
Finish(p, how) ==
    LET keep == how # "none" /\ Others(p) = {} IN
    /\ pc' = [pc EXCEPT ![p] = "idle"]
    /\ exit' = IF Others(p) # {} THEN "none" ELSE how
    /\ batch_size' = [batch_size EXCEPT ![p] = 1]
    /\ offset' = [offset EXCEPT ![p] = 0]
    /\ posts' = [posts EXCEPT ![p] = <<>>]
    /\ idx' = [idx EXCEPT ![p] = 1]
    /\ session' = [session EXCEPT ![p] = <<>>]
    /\ scored' = [scored EXCEPT ![p] = FALSE]
    /\ failed' = [failed EXCEPT ![p] = {}]
    /\ dirty' = [dirty EXCEPT ![p] = FALSE]
    /\ made' = [made EXCEPT ![p] = IF keep THEN @ ELSE {}]
    /\ after' = [after EXCEPT ![p] = IF keep THEN @ ELSE "none"]
    /\ redo' = [redo EXCEPT ![p] = IF keep THEN @ ELSE {}]
    /\ current_time' = [current_time EXCEPT ![p] = 0]
    /\ fetched_at' = [fetched_at EXCEPT ![p] = 0]

\* analyze_posts up to the first fetch: open the session, count the posts
\* without a sentiment row, return when there is none.
StartCall(p) ==
    /\ pc[p] = "idle"
    /\ \E b \in 1..MaxBatch :
          /\ lost' = NoLoss
          /\ made' = [q \in Procs |-> IF Active(q) THEN made[q] ELSE {}]
          /\ after' = [q \in Procs |-> IF Active(q) THEN after[q]
                                       ELSE IF q = p /\ Others(p) = {} THEN exit ELSE "none"]
          /\ redo' = [q \in Procs |-> IF Active(q) THEN redo[q]
                                      ELSE IF /\ q = p /\ Others(p) = {}
                                              /\ lost[2] = b /\ ~lost[3]
                                           THEN lost[1] ELSE {}]
          /\ IF Unanalyzed = {}
             THEN /\ exit' = IF Others(p) = {} THEN "complete" ELSE "none"
                  /\ UNCHANGED <<pc, batch_size, dirty, current_time>>
             ELSE /\ pc' = [pc EXCEPT ![p] = "fetch"]
                  /\ current_time' = [current_time EXCEPT ![p] = now]
                  /\ exit' = "none"
                  /\ batch_size' = [batch_size EXCEPT ![p] = b]
                  /\ dirty' = [q \in Procs |-> IF q = p THEN Others(p) # {}
                                               ELSE IF Active(q) THEN TRUE ELSE dirty[q]]
    /\ UNCHANGED <<store, offset, posts, idx, session, scored, failed, now, fetched_at, cmt, agg>>

\* an invocation of analyze_posts by itself
Start(p) == StartCall(p) /\ UNCHANGED script

\* The query at the head of the page loop, and the break on an empty page.
Fetch(p) ==
    /\ pc[p] = "fetch"
    /\ \E rows \in OrderByCreatedDesc(Unanalyzed) :
          LET page == LimitOffset(rows, batch_size[p], offset[p]) IN
          IF page = <<>>
          THEN Finish(p, IF dirty[p] THEN "none" ELSE "complete")
          ELSE /\ pc' = [pc EXCEPT ![p] = "loop"]
               /\ posts' = [posts EXCEPT ![p] = page]
               /\ idx' = [idx EXCEPT ![p] = 1]
               /\ failed' = [failed EXCEPT ![p] = {}]
               /\ scored' = [scored EXCEPT ![p] = FALSE]
               /\ redo' = [redo EXCEPT ![p] = @ \ Range(page)]
               /\ fetched_at' = [fetched_at EXCEPT ![p] = now]
               /\ UNCHANGED <<exit, batch_size, offset, session, made, dirty, after,
                              current_time>>
    /\ UNCHANGED <<store, lost, now, cmt, agg, script>>

\* max(scores.items(), key=..., default=("unknown", 0))[0] and PostSentiment(...)
NewPostSentiment(id, r, at) ==
    [post_id |-> id,
     clean_text |-> r.cleaned.clean,
     lemma_text |-> r.cleaned.lemma,
     char_count |-> r.cleaned.char_count,
     word_count |-> r.cleaned.word_count,
     sentiment_scores |-> r.sentiment,
     emotion_scores |-> r.emotion,
     hate_speech_scores |-> r.hate_speech,
     normalized_sentiment |-> r.normalized_sentiment,
     normalized_emotion |-> r.normalized_emotion,
     normalized_hate_speech |-> r.normalized_hate_speech,
     top_sentiment |-> top_category(r.sentiment),
     top_emotion |-> top_category(r.emotion),
     top_hate_category |-> top_category(r.hate_speech),
     created_utc |-> Post[id].created_utc,
     analyzed_utc |-> at]

\* the loop moves to the next post of the page, or to the commit after the last
NextItem(p) ==
    /\ idx' = [idx EXCEPT ![p] = @ + 1]
    /\ pc' = [pc EXCEPT ![p] = IF idx[p] + 1 > Len(posts[p]) THEN "commit" ELSE "loop"]

\* a handler that also rolls the session back
ExceptItem_Rollback(p, id) ==
    /\ NextItem(p)
    /\ session' = [session EXCEPT ![p] = <<>>]

\* except Exception as e: logger.error(...): the post is skipped
ExceptItem(p, id) ==
    /\ NextItem(p)
    /\ UNCHANGED session

\* session.add(post_sentiment)
AddItem(p, row) ==
    /\ session' = [session EXCEPT ![p] = Append(@, row)]
    /\ NextItem(p)

\* One iteration of `for post in posts`.
AnalyzeItem(p) ==
    /\ pc[p] = "loop"
    /\ LET id == posts[p][idx[p]] IN
       \E run \in ScorerRuns :
          LET r == analyze_text(Post[id].title, run) IN
          /\ scored' = [scored EXCEPT ![p] = ScorerCalls(Post[id].title, run) > 0]
          /\ failed' = [failed EXCEPT ![p] =
                            IF ScorerRaises(Post[id].title, run) THEN @ \cup {id} ELSE @]
          /\ dirty' = [dirty EXCEPT ![p] = @ \/ ScorerRaises(Post[id].title, run)]
          /\ IF r.raised THEN ExceptItem(p, id) ELSE AddItem(p, NewPostSentiment(id, r, current_time[p]))
    /\ UNCHANGED <<store, exit, batch_size, offset, posts, made, lost, after, redo, clock,
                   cmt, agg, script>>

\* a post_sentiments table whose post_id column is not declared unique
NoUniqueConstraint(p) == FALSE

\* post_sentiments.post_id is unique: the commit of a session holding a row
\* for a post that already has one raises IntegrityError
UniqueViolation(p) == \E i \in 1..Len(session[p]) : HasRecord(session[p][i].post_id)

\* a commit that rewrites the table from the rows of the session
Commit_Replacing(p) ==
    /\ pc[p] = "commit"
    /\ PostSentiment' = SetToBag(Range(session[p]))
    /\ made' = [made EXCEPT ![p] = @ \cup {session[p][i].post_id : i \in 1..Len(session[p])}]
    /\ session' = [session EXCEPT ![p] = <<>>]
    /\ offset' = [offset EXCEPT ![p] = @ + batch_size[p]]
    /\ pc' = [pc EXCEPT ![p] = "fetch"]
    /\ UNCHANGED <<Post, exit, batch_size, posts, idx, scored, failed, dirty, lost, after,
                   redo, clock, cmt, agg, script>>

\* a page loop that commits and asks for the same offset again
Commit_NoAdvance(p) ==
    /\ pc[p] = "commit"
    /\ ~UniqueViolation(p)
    /\ PostSentiment' = PostSentiment (+) SetToBag(Range(session[p]))
    /\ made' = [made EXCEPT ![p] = @ \cup {session[p][i].post_id : i \in 1..Len(session[p])}]
    /\ session' = [session EXCEPT ![p] = <<>>]
    /\ pc' = [pc EXCEPT ![p] = "fetch"]
    /\ UNCHANGED <<Post, exit, batch_size, offset, posts, idx, scored, failed, dirty, lost,
                   after, redo, clock, cmt, agg, script>>

\* session.commit(); offset += batch_size; time.sleep(0.1)
Commit(p) ==
    /\ pc[p] = "commit"
    /\ ~UniqueViolation(p)
    /\ PostSentiment' = PostSentiment (+) SetToBag(Range(session[p]))
    /\ made' = [made EXCEPT ![p] = @ \cup {session[p][i].post_id : i \in 1..Len(session[p])}]
    /\ session' = [session EXCEPT ![p] = <<>>]
    /\ offset' = [offset EXCEPT ![p] = @ + batch_size[p]]
    /\ pc' = [pc EXCEPT ![p] = "fetch"]
    /\ UNCHANGED <<Post, exit, batch_size, posts, idx, scored, failed, dirty, lost, after,
                   redo, clock, cmt, agg, script>>

\* a store whose failed commit leaves the first staged row behind
CommitFails_Partial(p) ==
    /\ pc[p] = "commit"
    /\ Finish(p, "failed")
    /\ lost' = IF Others(p) = {} THEN <<Range(posts[p]), batch_size[p], dirty[p]>> ELSE NoLoss
    /\ PostSentiment' = IF session[p] = <<>> THEN PostSentiment
                        ELSE PostSentiment (+) SetToBag({session[p][1]})
    /\ UNCHANGED <<Post, now, cmt, agg, script>>

\* a handler inside the loop: rollback, then on to the next page
CommitFails_Continue(p) ==
    /\ pc[p] = "commit"
    /\ exit' = IF Others(p) = {} THEN "failed" ELSE "none"
    /\ lost' = IF Others(p) = {} THEN <<Range(posts[p]), batch_size[p], dirty[p]>> ELSE NoLoss
    /\ session' = [session EXCEPT ![p] = <<>>]
    /\ offset' = [offset EXCEPT ![p] = @ + batch_size[p]]
    /\ pc' = [pc EXCEPT ![p] = "fetch"]
    /\ dirty' = [dirty EXCEPT ![p] = TRUE]
    /\ UNCHANGED <<store, batch_size, posts, idx, scored, failed, made, after, redo, clock,
                   cmt, agg, script>>

\* a commit whose exception no handler catches: the invocation dies on it
CommitFails_Unhandled(p) ==
    /\ pc[p] = "commit"
    /\ pc' = [pc EXCEPT ![p] = "crashed"]
    /\ UNCHANGED <<store, exit, locals, history, clock, cmt, agg, script>>

\* session.commit() raises (a unique violation, or the store failing): the
\* transaction is not written, the outer handler logs the error, closes the
\* session and returns
CommitFails(p) ==
    /\ pc[p] = "commit"
    /\ Finish(p, "failed")
    /\ lost' = IF Others(p) = {} THEN <<Range(posts[p]), batch_size[p], dirty[p]>> ELSE NoLoss
    /\ UNCHANGED <<store, now, cmt, agg, script>>

\* The process is stopped while the invocation runs.
Kill(p) ==
    /\ Active(p)
    /\ Finish(p, IF pc[p] # "fetch" THEN "midpage"
                 ELSE IF offset[p] > 0 THEN "between" ELSE "none")
    /\ lost' = IF Others(p) = {} /\ pc[p] # "fetch"
               THEN <<Range(posts[p]), batch_size[p], dirty[p]>> ELSE NoLoss
    /\ UNCHANGED <<store, now, cmt, agg, script>>

Step(p) ==
    \/ Start(p)
    \/ Fetch(p)
    \/ AnalyzeItem(p)
    \/ Commit(p)
    \/ CommitFails(p)
    \/ Kill(p)

\* invocations one after the other, posts arriving at any time
Next ==
    \/ InsertPost(MaxPosts, MaxTime)
    \/ Step("A")

Spec == Init /\ [][Next]_vars

\* the same with a longer backlog, whose posts can all differ in created_utc
NextBacklog ==
    \/ InsertPost(MaxBacklog, MaxBacklog)
    \/ Step("A")

SpecBacklog == Init /\ [][NextBacklog]_vars

\* two invocations that may overlap, posts arriving at any time, equal or all
\* different in created_utc
NextOverlap ==
    \/ InsertPost(MaxOverlapPosts, MaxOverlapPosts)
    \/ \E p \in Procs : Step(p)

SpecOverlap == Init /\ [][NextOverlap]_vars

\* The script is run after the harvest: posts of pairwise different created_utc
\* are stored before any invocation has run.
Harvest(cap) ==
    /\ \A p \in Procs : ~Active(p)
    /\ PostSentiment = EmptyBag
    /\ exit = "none"
    /\ InsertPost(cap, cap)
    /\ \A i \in 1..Len(Post) : Post[i].created_utc # Post'[Len(Post')].created_utc

\* invocations one after the other that run to their end over a harvested corpus
NextQuiet ==
    \/ Harvest(MaxQuietPosts)
    \/ Start("A")
    \/ Fetch("A")
    \/ AnalyzeItem("A")
    \/ Commit("A")

SpecQuiet == Init /\ [][NextQuiet]_vars

\* the loop of invocation p is at the k-th post of the page
AtItem(p, k) == pc[p] = "loop" /\ idx[p] = k

\* the loop has just added the row of the k-th post of the page
ScoredItem(p, k) ==
    /\ pc[p] \in {"loop", "commit"}
    /\ idx[p] = k + 1
    /\ \E i \in 1..Len(session[p]) : session[p][i].post_id = posts[p][k]

\* The loop does not stay at a post for ever, and a position of the page that
\* is analyzed again and again is scored again and again: no scorer fails for
\* ever.
FairScoring(p) ==
    \A k \in 1..MaxBatch :
        /\ []<>(~AtItem(p, k))
        /\ []<>AtItem(p, k) => []<>ScoredItem(p, k)

\* The script is invoked again and again over a harvested corpus and every
\* invocation runs to its end.
NextLive ==
    \/ Harvest(MaxLivePosts)
    \/ Start("A")
    \/ Fetch("A")
    \/ AnalyzeItem("A")
    \/ Commit("A")

SpecLive ==
    /\ Init
    /\ [][NextLive]_vars
    /\ WF_vars(Start("A") \/ Fetch("A") \/ Commit("A"))
    /\ FairScoring("A")

\* The clock advances.
Tick ==
    /\ now < MaxClock
    /\ now' = now + 1
    /\ UNCHANGED <<store, pc, exit, locals, history, current_time, fetched_at, cmt, agg,
                   script>>

\* invocations running to their end over a harvested corpus while time passes
NextClock ==
    \/ Tick
    \/ Harvest(MaxBacklog)
    \/ Start("A")
    \/ Fetch("A")
    \/ AnalyzeItem("A")
    \/ Commit("A")

SpecClock == Init /\ [][NextClock]_vars

\* --------------------------------------------------------- analyze_comments
CommentIds == 1..Comment

\* session.query(Comment).outerjoin(CommentSentiment).filter(CommentSentiment.id == None)
UnanalyzedComments == {c \in CommentIds : c \notin CommentSentiment}

\* .order_by(Comment.created_utc.desc()): the later comment first
RECURSIVE NewestFirst(_)
NewestFirst(S) ==
    IF S = {} THEN <<>>
    ELSE LET m == CHOOSE x \in S : \A y \in S : y <= x IN <<m>> \o NewestFirst(S \ {m})

\* The harvester stores a new comment.
InsertComment ==
    /\ Comment < MaxComments
    /\ Comment' = Comment + 1
    /\ UNCHANGED <<CommentSentiment, c_pc, max_comments, total_comments, c_batch_size,
                   c_offset, comments, c_idx, c_session, analyzed, backfill, agg, script>>

\* session.close() and return: the variables of the invocation are gone, the
\* ceiling it had and the number of analyses it made stay on record
FinishComments ==
    /\ c_pc' = "idle"
    /\ total_comments' = 0
    /\ c_batch_size' = 1
    /\ c_offset' = 0
    /\ comments' = <<>>
    /\ c_idx' = 1
    /\ c_session' = <<>>

\* analyze_comments up to the loop: count, cap the count at max_comments,
\* return when it is 0
StartCommentsCall ==
    /\ c_pc = "idle"
    /\ \E b \in 1..MaxBatch, m \in 0..MaxCeiling :
          LET total == Min(Cardinality(UnanalyzedComments), m) IN
          /\ max_comments' = m
          /\ analyzed' = 0
          /\ IF total = 0
             THEN UNCHANGED <<c_pc, total_comments, c_batch_size>>
             ELSE /\ c_pc' = "while"
                  /\ total_comments' = total
                  /\ c_batch_size' = b
    /\ UNCHANGED <<Comment, CommentSentiment, c_offset, comments, c_idx, c_session,
                   backfill, agg>>

\* an invocation of analyze_comments by itself
StartComments == StartCommentsCall /\ UNCHANGED script

\* while offset < total_comments: the query of the page, break when it is empty
WhileComments ==
    /\ c_pc = "while"
    /\ LET page == LimitOffset(NewestFirst(UnanalyzedComments), c_batch_size, c_offset) IN
       IF c_offset < total_comments /\ page # <<>>
       THEN /\ c_pc' = "loop"
            /\ comments' = page
            /\ c_idx' = 1
            /\ UNCHANGED <<total_comments, c_batch_size, c_offset, c_session>>
       ELSE FinishComments
    /\ UNCHANGED <<Comment, CommentSentiment, max_comments, analyzed, backfill, agg, script>>

\* One iteration of `for comment in comments`: analyze_text(comment.body), the
\* row added to the session unless a scorer raised.
AnalyzeComment ==
    /\ c_pc = "loop"
    /\ \E body \in Titles, run \in ScorerRuns :
          c_session' = IF analyze_text(body, run).raised THEN c_session
                       ELSE Append(c_session, comments[c_idx])
    /\ analyzed' = analyzed + 1
    /\ c_idx' = c_idx + 1
    /\ c_pc' = IF c_idx + 1 > Len(comments) THEN "commit" ELSE "loop"
    /\ UNCHANGED <<Comment, CommentSentiment, max_comments, total_comments, c_batch_size,
                   c_offset, comments, backfill, agg, script>>

\* session.commit(); offset += batch_size
CommitComments ==
    /\ c_pc = "commit"
    /\ CommentSentiment' = CommentSentiment \cup Range(c_session)
    /\ c_session' = <<>>
    /\ c_offset' = c_offset + c_batch_size
    /\ c_pc' = "while"
    /\ UNCHANGED <<Comment, max_comments, total_comments, c_batch_size, comments, c_idx,
                   analyzed, backfill, agg, script>>

\* session.commit() raises: the outer handler closes the session and returns
CommitCommentsFails ==
    /\ c_pc = "commit"
    /\ FinishComments
    /\ UNCHANGED <<Comment, CommentSentiment, max_comments, analyzed, backfill, agg, script>>

NextComments ==
    \/ InsertComment
    \/ StartComments
    \/ WhileComments
    \/ AnalyzeComment
    \/ CommitComments
    \/ CommitCommentsFails

SpecComments == Init /\ [][NextComments]_vars

\* ------------------------------------------------------ the script, main()
\* what Base.metadata.create_all(bind=engine) can do: succeed, fail to connect,
\* or fail on a statement the store refuses
CreateAllOutcomes == {"ok", "unreachable", "ddl"}

\* sys.exit(code), or the script running off its end (code 0)
SysExit(code, why) ==
    /\ m_pc' = "off"
    /\ exit_code' = code
    /\ cause' = why

\* The script is run after the harvest: the comments are stored before it is
\* launched for the first time.
HarvestComments(cap) ==
    /\ m_pc = "off"
    /\ exit_code = -1
    /\ Comment < cap
    /\ InsertComment

\* python scripts/init_sentiment.py
Launch ==
    /\ m_pc = "off"
    /\ m_pc' = "import"
    /\ exit_code' = -1
    /\ cause' = "none"
    /\ UNCHANGED <<backfill, cmt, agg, dag>>

\* The imports of app.db, app.models and app.sentiment_analyzer: an
\* ImportError is logged and followed by sys.exit(1), any other exception of
\* the module bodies ends the interpreter with status 1 as well.
ImportApp ==
    /\ m_pc = "import"
    /\ \E ok \in BOOLEAN :
          IF ok THEN m_pc' = "init" /\ UNCHANGED <<exit_code, cause>>
          ELSE SysExit(1, "import")
    /\ UNCHANGED <<backfill, cmt, agg, dag>>

\* an initialize_database that logs the exception and returns
initialize_database_Swallows ==
    /\ m_pc = "init"
    /\ \E r \in CreateAllOutcomes :
          /\ m_pc' = "posts"
          /\ cause' = IF r = "ok" THEN cause ELSE r
          /\ UNCHANGED exit_code
    /\ UNCHANGED <<backfill, cmt, agg, dag>>

\* initialize_database() called by main: the exception of create_all is logged
\* and raised again, main logs it and calls sys.exit(1)
initialize_database ==
    /\ m_pc = "init"
    /\ \E r \in CreateAllOutcomes :
          IF r = "ok" THEN m_pc' = "posts" /\ UNCHANGED <<exit_code, cause>>
          ELSE SysExit(1, r)
    /\ UNCHANGED <<backfill, cmt, agg, dag>>

\* main calls analyze_posts()
CallAnalyzePosts ==
    /\ m_pc = "posts"
    /\ StartCall("A")
    /\ m_pc' = "in_posts"
    /\ UNCHANGED <<exit_code, cause, dag>>

\* a query of analyze_posts raises (the store is lost during the run): the
\* handler of the function logs, closes the session and returns
QueryFails(p) ==
    /\ pc[p] = "fetch"
    /\ Finish(p, "none")
    /\ UNCHANGED <<store, lost, now, cmt, agg, script>>

\* analyze_posts() has returned, main calls analyze_comments()
CallAnalyzeComments ==
    /\ m_pc = "in_posts"
    /\ pc["A"] = "idle"
    /\ StartCommentsCall
    /\ m_pc' = "in_comments"
    /\ UNCHANGED <<exit_code, cause, dag>>

\* analyze_comments() has returned: main logs the elapsed time and returns
ReturnMain ==
    /\ m_pc = "in_comments"
    /\ c_pc = "idle"
    /\ SysExit(0, "none")
    /\ UNCHANGED <<backfill, cmt, agg, dag>>

NextMain ==
    \/ Harvest(MaxMainPosts)
    \/ HarvestComments(MaxMainComments)
    \/ Launch
    \/ ImportApp
    \/ initialize_database
    \/ CallAnalyzePosts
    \/ Fetch("A")
    \/ QueryFails("A")
    \/ AnalyzeItem("A")
    \/ Commit("A")
    \/ CommitFails("A")
    \/ CallAnalyzeComments
    \/ WhileComments
    \/ AnalyzeComment
    \/ CommitComments
    \/ CommitCommentsFails
    \/ ReturnMain

SpecMain == Init /\ [][NextMain]_vars

\* ------------------------------------------------- one function at a time
\* A comment is stored while analyze_comments is not running.
QuietComment(cap) ==
    /\ c_pc = "idle"
    /\ Comment < cap
    /\ InsertComment

\* analyze_posts called while analyze_comments is not running
StartPostsAlone == c_pc = "idle" /\ Start("A")

\* analyze_comments called while analyze_posts is not running
StartCommentsAlone == pc["A"] = "idle" /\ StartComments

\* the loop of analyze_comments is at the k-th comment of the page
AtComment(k) == c_pc = "loop" /\ c_idx = k

\* The functions are called one after the other (main, and the order of the
\* DAG), over a corpus that does not change while one of them runs; a commit
\* may fail and any scorer may raise for any item.
NextTerm ==
    \/ Harvest(MaxTermPosts)
    \/ QuietComment(MaxTermComments)
    \/ StartPostsAlone
    \/ Fetch("A")
    \/ AnalyzeItem("A")
    \/ Commit("A")
    \/ CommitFails("A")
    \/ StartCommentsAlone
    \/ WhileComments
    \/ AnalyzeComment
    \/ CommitComments
    \/ CommitCommentsFails

\* Every statement of a running function is executed in the end: the queries
\* and the commits return or raise, and no call of analyze_text runs for ever.
SpecTerm ==
    /\ Init
    /\ [][NextTerm]_vars
    /\ WF_vars(Fetch("A"))
    /\ WF_vars(Commit("A") \/ CommitFails("A"))
    /\ WF_vars(WhileComments)
    /\ WF_vars(CommitComments \/ CommitCommentsFails)
    /\ \A k \in 1..MaxBatch : []<>(~AtItem("A", k)) /\ []<>(~AtComment(k))

\* ------------------------------------------------- the aggregation functions
\* The distributions over at most MaxKeys labels with scores 0, 1/MaxNum, .., 1
ScoreValues == {Rat(n, MaxNum) : n \in 0..MaxNum}

Dists ==
    UNION {{d \in [1..n -> Labels \X ScoreValues] :
              \A i, j \in 1..n : d[i][1] = d[j][1] => i = j} : n \in 0..MaxKeys}

InitInputs ==
    /\ InitBackfill
    /\ InitComments
    /\ InitScript
    /\ InitAgg
    /\ in_scores \in Dists
    /\ in_word_count \in 0..MaxWords
    /\ in_text = None
    /\ in_run = [sentiment |-> Raises, emotion |-> Raises, hate_speech |-> Raises]
    /\ in_request = NoRequest

ApplyNormalizeScores ==
    /\ "normalize_scores" \notin applied
    /\ applied' = applied \cup {"normalize_scores"}
    /\ out_normalize_scores' = normalize_scores(in_scores, in_word_count)
    /\ UNCHANGED <<backfill, cmt, script, in_scores, in_word_count, out_normalize, out_top,
                   in_lexicon, out_lexicon, in_text, in_run, out_analyze_text, in_request, out_response>>

ApplyNormalize ==
    /\ "normalize" \notin applied
    /\ applied' = applied \cup {"normalize"}
    /\ out_normalize' = normalize(in_scores, in_word_count)
    /\ UNCHANGED <<backfill, cmt, script, in_scores, in_word_count, out_normalize_scores, out_top,
                   in_lexicon, out_lexicon, in_text, in_run, out_analyze_text, in_request, out_response>>

ApplyTopCategory ==
    /\ "top_category" \notin applied
    /\ applied' = applied \cup {"top_category"}
    /\ out_top' = top_category(in_scores)
    /\ UNCHANGED <<backfill, cmt, script, in_scores, in_word_count, out_normalize_scores, out_normalize,
                   in_lexicon, out_lexicon, in_text, in_run, out_analyze_text, in_request, out_response>>

NextAgg ==
    \/ ApplyNormalizeScores
    \/ ApplyNormalize
    \/ ApplyTopCategory

SpecAgg == InitInputs /\ [][NextAgg]_vars

\* ------------------------------------------------------------ analyze_text
Chars == {" ", "x", "#"}

\* the strings of at most MaxChars characters, and None
Texts == {None} \cup {Str(s) : s \in UNION {[1..n -> Chars] : n \in 0..MaxChars}}

InitTexts ==
    /\ InitBackfill
    /\ InitComments
    /\ InitScript
    /\ InitAgg
    /\ in_scores = <<>>
    /\ in_word_count = 0
    /\ in_text \in Texts
    /\ in_run \in ScorerRuns
    /\ in_request = NoRequest

ApplyAnalyzeText ==
    /\ "analyze_text" \notin applied
    /\ applied' = applied \cup {"analyze_text"}
    /\ out_analyze_text' = analyze_text(in_text, in_run)
    /\ UNCHANGED <<backfill, cmt, script, in_scores, in_word_count, out_normalize_scores,
                   out_normalize, out_top, in_lexicon, out_lexicon, in_text, in_run, in_request, out_response>>

NextText == ApplyAnalyzeText

SpecText == InitTexts /\ [][NextText]_vars

\* ---------------------------------------------------------------- the API
\* the routes of main.py without a path parameter
Routes ==
    { <<"GET", "/health">>, <<"GET", "/debug">>, <<"POST", "/analyze/text">>,
      <<"GET", "/posts">>, <<"GET", "/stats/sentiment">>, <<"GET", "/trends">> }

RequestPaths == {"/analyze", "/analyze/text", "/health"}

\* a request: its method and path, the query parameter `text` and the member
\* `text` of a JSON body, each None when absent
Requests ==
    [method : {"GET", "POST"}, path : RequestPaths, query : Texts, json : Texts]

Response(status, keys) == [status |-> status, keys |-> keys]

\* the keys of the dictionary analyze_text returns
ResultKeys ==
    {"cleaned", "sentiment", "normalized_sentiment", "emotion", "normalized_emotion",
     "hate_speech", "normalized_hate_speech"}

\* analyze_single_text(text: str): `text` is a required query parameter; an
\* exception of analyze_text becomes HTTPException(500)
analyze_single_text(req, run) ==
    IF req.query.none THEN Response(422, {"detail"})
    ELSE IF analyze_text(req.query, run).raised THEN Response(500, {"detail"})
    ELSE Response(200, ResultKeys)

\* The application answering a request: 404 when no route has the path, 405
\* when the path is routed for another method, else the handler of the route.
Dispatch(req, run) ==
    IF \A r \in Routes : r[2] # req.path THEN Response(404, {"detail"})
    ELSE IF <<req.method, req.path>> \notin Routes THEN Response(405, {"detail"})
    ELSE IF req.path = "/analyze/text" THEN analyze_single_text(req, run)
    ELSE Response(200, {"status", "timestamp"})

InitRequests ==
    /\ InitBackfill
    /\ InitComments
    /\ InitScript
    /\ InitAgg
    /\ in_scores = <<>>
    /\ in_word_count = 0
    /\ in_text = None
    /\ in_run \in ScorerRuns
    /\ in_request \in Requests

ApplyDispatch ==
    /\ "dispatch" \notin applied
    /\ applied' = applied \cup {"dispatch"}
    /\ out_response' = Dispatch(in_request, in_run)
    /\ UNCHANGED <<backfill, cmt, script, in_scores, in_word_count, out_normalize_scores,
                   out_normalize, out_top, in_lexicon, out_lexicon, in_text, in_run, out_analyze_text, in_request>>

NextApi == ApplyDispatch

SpecApi == InitRequests /\ [][NextApi]_vars

\* ------------------------------------------ the manual re-trigger, main.py
\* the answer of analyze_post and the table after it: `row` is None when the
\* table is left as it is
Retriggered(status, keys, table) ==
    /\ out_response' = Response(status, keys)
    /\ PostSentiment' = table

\* an analyze_post that adds a row without looking for an existing one, on a
\* table that accepts it
analyze_post_AlwaysAdds(post_id) ==
    /\ in_request' = [method |-> "POST", path |-> "/analyze/post/{post_id}",
                      query |-> None, json |-> None, post_id |-> post_id]
    /\ IF post_id \notin PostIds
       THEN Retriggered(404, {"detail"}, PostSentiment)
       ELSE \E run \in ScorerRuns, commits \in BOOLEAN :
               LET results == analyze_text(Post[post_id].title, run) IN
               IF results.raised \/ ~commits
               THEN Retriggered(500, {"detail"}, PostSentiment)
               ELSE Retriggered(200, {"status", "post_id", "sentiment", "emotion"},
                                PostSentiment (+) SetToBag({NewPostSentiment(post_id, results, now)}))
    /\ dirty' = [p \in Procs |-> Active(p)]
    /\ exit' = "none"
    /\ lost' = NoLoss
    /\ made' = [p \in Procs |-> IF Active(p) THEN made[p] ELSE {}]
    /\ after' = [p \in Procs |-> IF Active(p) THEN after[p] ELSE "none"]
    /\ redo' = [p \in Procs |-> IF Active(p) THEN redo[p] ELSE {}]
    /\ UNCHANGED <<Post, pc, locals, scored, failed, clock, cmt, script, in_scores,
                   in_word_count, applied, out_normalize_scores, out_normalize, out_top,
                   in_lexicon, out_lexicon, in_text, in_run, out_analyze_text>>

\* POST /analyze/post/{post_id}: 404 for an unknown post; else analyze_text on
\* the title, the row of the post updated in place when there is one
\* (created_utc is not assigned) and added when there is none, db.commit();
\* any exception of the analysis or of the commit: db.rollback() and 500.
analyze_post(post_id) ==
    /\ in_request' = [method |-> "POST", path |-> "/analyze/post/{post_id}",
                      query |-> None, json |-> None, post_id |-> post_id]
    /\ IF post_id \notin PostIds
       THEN Retriggered(404, {"detail"}, PostSentiment)
       ELSE \E run \in ScorerRuns, commits \in BOOLEAN :
               LET results == analyze_text(Post[post_id].title, run)
                   found == {r \in Rows : r.post_id = post_id}
                   new == NewPostSentiment(post_id, results, now)
               IN  IF results.raised \/ ~commits
                   THEN Retriggered(500, {"detail"}, PostSentiment)
                   ELSE IF found = {}
                   THEN Retriggered(200, {"status", "post_id", "sentiment", "emotion"},
                                    PostSentiment (+) SetToBag({new}))
                   ELSE \E post_sentiment \in found :
                           Retriggered(200, {"status", "post_id", "sentiment", "emotion"},
                                       (PostSentiment (-) SetToBag({post_sentiment}))
                                       (+) SetToBag({[new EXCEPT !.created_utc =
                                                         post_sentiment.created_utc]}))
    /\ dirty' = [p \in Procs |-> Active(p)]
    /\ exit' = "none"
    /\ lost' = NoLoss
    /\ made' = [p \in Procs |-> IF Active(p) THEN made[p] ELSE {}]
    /\ after' = [p \in Procs |-> IF Active(p) THEN after[p] ELSE "none"]
    /\ redo' = [p \in Procs |-> IF Active(p) THEN redo[p] ELSE {}]
    /\ UNCHANGED <<Post, pc, locals, scored, failed, clock, cmt, script, in_scores,
                   in_word_count, applied, out_normalize_scores, out_normalize, out_top,
                   in_lexicon, out_lexicon, in_text, in_run, out_analyze_text>>

\* the post ids a client asks for: those of the table and one that is unknown
RetriggerIds == 1..(MaxRetriggerPosts + 1)

\* the clock of the re-trigger runs: time passes once the backfill has written,
\* and one reading later than its start is enough to tell a row written again
\* from the row it replaces
RetriggerTick == now < MaxRetriggerClock /\ made["A"] # {} /\ Tick

\* the backfill and the manual re-trigger working on the same tables
NextRetrigger ==
    \/ RetriggerTick
    \/ Harvest(MaxRetriggerPosts)
    \/ Start("A")
    \/ Fetch("A")
    \/ AnalyzeItem("A")
    \/ Commit("A")
    \/ \E post_id \in RetriggerIds : analyze_post(post_id)

SpecRetrigger == Init /\ [][NextRetrigger]_vars

\* ================================================================== claims
RecordCount(id) ==
    LET S == {r \in Rows : r.post_id = id} IN
    IF S = {} THEN 0 ELSE BagCardinality([r \in S |-> PostSentiment[r]])

\* C1: whatever invocations have run, been killed or overlapped, and whatever
\* posts have been inserted meanwhile, every post has at most one row in
\* post_sentiments (and every row belongs to a post).
C1_AtMostOneRecord ==
    /\ \A id \in PostIds : RecordCount(id) <= 1
    /\ \A r \in Rows : r.post_id \in PostIds

\* an invocation is about to commit a row for a post that another invocation
\* has given a row meanwhile
C1_Witness ==
    \E p \in Procs : pc[p] = "commit" /\ UniqueViolation(p) /\ Others(p) # {}

\* no two posts were created in the same second, so every fetch is in one order
DistinctTimes ==
    \A i, j \in PostIds : Post[i].created_utc = Post[j].created_utc => i = j

\* C2: an invocation that runs to completion right after another one that ran
\* to completion, with no post inserted and no failure in either, commits no
\* row (stated for posts of distinct creation times).
C2_SecondRunCreatesNothing ==
    \A p \in Procs :
        (DistinctTimes /\ exit = "complete" /\ after[p] = "complete") => made[p] = {}

\* C3: when an invocation that ran alone, saw no insert and no failure leaves
\* its page loop, no post is left without a row (stated for posts of distinct
\* creation times).
C3_RunAnalyzesEverything == (DistinctTimes /\ exit = "complete") => Unanalyzed = {}

\* C4: an invocation that follows one killed between two pages finds the rows
\* committed before the kill in place, never holds a post that has a row in the
\* page it processes, and no post ever gets a second row.
C4_NoReprocessing ==
    /\ \A p \in Procs : exit = "between" => \A id \in made[p] : HasRecord(id)
    /\ \A p \in Procs :
          pc[p] \in {"loop", "commit"} => \A id \in Range(posts[p]) : ~HasRecord(id)
    /\ \A id \in PostIds : RecordCount(id) <= 1

\* an invocation that follows a kill between pages is processing a page while
\* rows committed before the kill exist
C4_Witness ==
    \E p \in Procs :
        /\ after[p] = "between"
        /\ pc[p] = "loop"
        /\ Rows # {}

\* the posts of the current page the loop has been through
Analyzed(p) == {posts[p][i] : i \in 1..(idx[p] - 1)}

StagedIds(p) == {session[p][i].post_id : i \in 1..Len(session[p])}

\* C5: a scorer raising on one item leaves the rows staged for the other items
\* of the page in the session and the loop running, and the commit of the page
\* gives a row to every item of the page but the failed ones.
C5_FailureIsolated ==
    \A p \in Procs :
        /\ pc[p] \in {"loop", "commit"} => StagedIds(p) = Analyzed(p) \ failed[p]
        /\ (pc[p] = "fetch" /\ offset[p] > 0) =>
              {id \in Range(posts[p]) : HasRecord(id)} = Range(posts[p]) \ failed[p]

\* a page of two posts has been committed, one of them failed, the other has
\* its row
C5_Witness ==
    \E p \in Procs :
        /\ pc[p] = "fetch"
        /\ offset[p] > 0
        /\ Len(posts[p]) = 2
        /\ Cardinality(failed[p]) = 1
        /\ \E id \in Range(posts[p]) \ failed[p] : HasRecord(id)

\* the three raw distributions of a row are all there or all missing
Whole(r) ==
    /\ (r.sentiment_scores = <<>>) = (r.emotion_scores = <<>>)
    /\ (r.emotion_scores = <<>>) = (r.hate_speech_scores = <<>>)

\* C6: an item for which a scorer raised has no row, staged or committed, and
\* stays a post without a sentiment row; no row holds part of a result.
C6_NoPartialRecord ==
    /\ \A p \in Procs :
          /\ \A id \in failed[p] : id \notin StagedIds(p)
          /\ (pc[p] = "fetch" /\ offset[p] > 0) => failed[p] \subseteq Unanalyzed
          /\ \A i \in 1..Len(session[p]) : Whole(session[p][i])
    /\ \A r \in Rows : Whole(r)

\* a page has been committed and the item that failed in it is still a post
\* without a sentiment row
C6_Witness ==
    \E p \in Procs :
        /\ pc[p] = "fetch"
        /\ offset[p] > 0
        /\ failed[p] # {}
        /\ failed[p] \subseteq Unanalyzed

\* the text is None, empty or made of blanks
Blank(text) == text.none \/ \A i \in 1..Len(text.chars) : text.chars[i] = " "

\* the row is the one of an empty text
UnknownRow(r) ==
    /\ r.word_count = 0
    /\ r.char_count = 0
    /\ r.sentiment_scores = <<>> /\ r.normalized_sentiment = <<>>
    /\ r.emotion_scores = <<>> /\ r.normalized_emotion = <<>>
    /\ r.hate_speech_scores = <<>> /\ r.normalized_hate_speech = <<>>
    /\ r.top_sentiment = "unknown"
    /\ r.top_emotion = "unknown"
    /\ r.top_hate_category = "unknown"

\* the item the loop analyzed last
LastItem(p) == posts[p][idx[p] - 1]

\* C7 as stated: an item whose text is None, empty or blank makes no scorer
\* call and gets no row.
C7_EmptyTextNoRecord ==
    /\ \A p \in Procs :
          (pc[p] \in {"loop", "commit"} /\ idx[p] > 1 /\ Blank(Post[LastItem(p)].title))
              => (~scored[p] /\ LastItem(p) \notin StagedIds(p))
    /\ \A id \in PostIds : Blank(Post[id].title) => ~HasRecord(id)

\* C7: an item whose text is None, empty or blank makes no scorer call and
\* does not fail; a row is staged for it and committed with the page, with a
\* word count of 0, empty raw and normalized distributions and the three top
\* labels "unknown".
C7_EmptyTextUnknownRecord ==
    /\ \A p \in Procs :
          (pc[p] \in {"loop", "commit"} /\ idx[p] > 1 /\ Blank(Post[LastItem(p)].title))
              => /\ ~scored[p]
                 /\ LastItem(p) \notin failed[p]
                 /\ \E i \in 1..Len(session[p]) :
                       session[p][i].post_id = LastItem(p) /\ UnknownRow(session[p][i])
    /\ \A p \in Procs :
          (pc[p] = "fetch" /\ offset[p] > 0) =>
              \A id \in Range(posts[p]) : Blank(Post[id].title) => HasRecord(id)
    /\ \A r \in Rows : Blank(Post[r.post_id].title) => UnknownRow(r)

\* a post with a blank title has its row
C7_Witness ==
    \E r \in Rows : Blank(Post[r.post_id].title) /\ UnknownRow(r)

\* out[i] is in[i] with its score divided by wc (wc > 0)
Divided(out, in, wc) ==
    /\ Len(out) = Len(in)
    /\ \A i \in 1..Len(in) :
          /\ out[i][1] = in[i][1]
          /\ out[i][2][1] * in[i][2][2] * wc = in[i][2][1] * out[i][2][2]

\* C8 as stated: both helpers return the empty mapping for a word count of
\* zero or less and raw[k] / wc for every key otherwise.
C8_NormalizationLaw ==
    /\ "normalize_scores" \in applied =>
          IF in_word_count > 0 THEN Divided(out_normalize_scores, in_scores, in_word_count)
          ELSE out_normalize_scores = <<>>
    /\ "normalize" \in applied =>
          IF in_word_count > 0 THEN Divided(out_normalize, in_scores, in_word_count)
          ELSE out_normalize = <<>>

\* C8: for a word count above zero both helpers return raw[k] / wc for every
\* key; for a word count of zero normalize returns the empty mapping and
\* normalize_scores returns the raw distribution unchanged.
C8_NormalizationAsCoded ==
    /\ "normalize_scores" \in applied =>
          IF in_word_count > 0 THEN Divided(out_normalize_scores, in_scores, in_word_count)
          ELSE out_normalize_scores = in_scores
    /\ "normalize" \in applied =>
          IF in_word_count > 0 THEN Divided(out_normalize, in_scores, in_word_count)
          ELSE out_normalize = <<>>

\* both helpers have run on a distribution that is not empty with a word count
\* of zero
C8_Witness ==
    /\ {"normalize_scores", "normalize"} \subseteq applied
    /\ in_word_count = 0
    /\ in_scores # <<>>
    /\ out_normalize_scores = in_scores
    /\ out_normalize = <<>>

\* score of item i is at least / above the score of item j
AtLeast(d, i, j) == d[i][2][1] * d[j][2][2] >= d[j][2][1] * d[i][2][2]

Above(d, i, j) == d[i][2][1] * d[j][2][2] > d[j][2][1] * d[i][2][2]

\* C9: the top label of a distribution is the label of the first item, in
\* iteration order, whose score is maximal, and "unknown" for the empty one.
C9_TieBreakFirst ==
    "top_category" \in applied =>
        IF in_scores = <<>> THEN out_top = "unknown"
        ELSE \E i \in 1..Len(in_scores) :
                /\ out_top = in_scores[i][1]
                /\ \A j \in 1..Len(in_scores) : AtLeast(in_scores, i, j)
                /\ \A j \in 1..(i - 1) : Above(in_scores, i, j)

\* two labels tie at the maximum and the first one is the top label
C9_Witness ==
    /\ "top_category" \in applied
    /\ Len(in_scores) = 2
    /\ in_scores[1][2] = in_scores[2][2]
    /\ out_top = in_scores[1][1]

\* C10, first part: the rows an invocation has committed are there when it is
\* killed, between pages or in the middle of one
C10_CommittedPagesKept ==
    \A p \in Procs : exit \in {"between", "midpage"} => \A id \in made[p] : HasRecord(id)

\* C10, second part: nothing of the page in flight at the kill is durable
C10_PageInFlightLost == exit = "midpage" => lost[1] \subseteq Unanalyzed

\* C10, third part: the invocation that follows the kill fetches every post of
\* the page that was in flight (stated for an invocation of the same page size
\* that runs alone to completion, no post inserted and no item failing since
\* the killed invocation started, over posts of distinct creation times)
C10_LostPageFetchedAgain ==
    \A p \in Procs :
        (DistinctTimes /\ exit = "complete" /\ after[p] = "midpage") => redo[p] = {}

\* C10: stopping the backfill loses no committed row, a stop in the middle of a
\* page loses that page only, and the next invocation fetches its posts again.
C10_Cancellation ==
    /\ C10_CommittedPagesKept
    /\ C10_PageInFlightLost
    /\ C10_LostPageFetchedAgain

\* C11: when the commit of a page fails, no post of that page has a row, none
\* of the rows written before is gone, and nothing is left in the session.
C11_FailedCommitWritesNothing ==
    exit = "failed" =>
        /\ lost[1] \subseteq Unanalyzed
        /\ \A p \in Procs : \A id \in made[p] : HasRecord(id)
        /\ \A p \in Procs : session[p] = <<>>

\* the commit of a page for which rows were staged has failed
C11_Witness ==
    /\ exit = "failed"
    /\ lost[1] # {}
    /\ ~lost[3]

\* C12 as stated: after a commit failure the invocation is still running, at
\* the fetch of the next page.
C12_LoopGoesOnAfterCommitFailure ==
    exit = "failed" => \E p \in Procs : pc[p] = "fetch"

\* C12: a commit failure ends the invocation: the outer handler closes the
\* session and analyze_posts returns, no further page is fetched.
C12_CommitFailureEndsInvocation ==
    exit = "failed" => \A p \in Procs : pc[p] = "idle" /\ offset[p] = 0 /\ posts[p] = <<>>

\* a commit has failed and the invocation is over with two posts left without
\* a row
C12_Witness ==
    /\ exit = "failed"
    /\ \A p \in Procs : pc[p] = "idle"
    /\ Cardinality(Unanalyzed) = 2

\* C13: an invocation of analyze_comments makes at most max_comments calls of
\* analyze_text, whatever batch_size and max_comments are.
C13_CeilingBoundsWork == analyzed <= max_comments

\* C14: when an invocation that ran to completion with no failure follows
\* another one that did, with nothing inserted since the first one started, no
\* post is left without a row: what the first one skipped the second one
\* analyzed.
C14_NextRunPicksUpSkipped ==
    \A p \in Procs : (exit = "complete" /\ after[p] = "complete") => Unanalyzed = {}

C16_OnlyUnreachableIsFatal == exit_code = 1 => cause = "unreachable"

\* C16: a store that cannot be reached when the script starts ends it with
\* status 1, and the status 1 is only ever set before analyze_posts is called
\* (by the imports or by initialize_database): no failure of a query, of a
\* scorer or of a commit during the page work makes the script exit non-zero.
C16_FatalOnlyBeforePageWork ==
    /\ [](cause = "unreachable" => m_pc = "off" /\ exit_code = 1)
    /\ [](exit_code = 1 => cause \in {"import", "unreachable", "ddl"})
    /\ [][(exit_code # 1 /\ exit_code' = 1) => m_pc \in {"import", "init"}]_vars
    /\ [][(m_pc \in {"in_posts", "in_comments"}) =>
              (IF m_pc' = "off" THEN exit_code' = 0 ELSE exit_code' = exit_code)]_vars

\* the script has ended with status 1 on an unreachable store, while posts
\* without a row are waiting and none has been written
C16_Witness ==
    /\ exit_code = 1
    /\ cause = "unreachable"
    /\ Unanalyzed # {}
    /\ PostSentiment = EmptyBag

\* the invocation has staged a row for a post that has a row already
StagedConflict(p) == \E id \in StagedIds(p) : HasRecord(id)

\* C17: with two invocations of analyze_posts overlapping over the same posts,
\* no post ever has two rows; the invocation whose commit meets the row of the
\* other one writes nothing of its transaction and ends (its handler logs the
\* error and returns), and no invocation is ever left dead on an exception.
C17_OverlapNoDuplicate ==
    /\ [](\A id \in PostIds : RecordCount(id) <= 1)
    /\ [](\A p \in Procs : pc[p] \in {"idle", "fetch", "loop", "commit"})
    /\ [][\A p \in Procs :
            (pc[p] = "commit" /\ StagedConflict(p) /\ pc'[p] # "commit") =>
                /\ pc'[p] = "idle"
                /\ session'[p] = <<>>
                /\ PostSentiment' = PostSentiment]_vars

\* an invocation has ended on a failed commit of a page whose posts all have
\* their row from the other invocation, which analyzed them at the same time
C17_Witness ==
    /\ exit = "failed"
    /\ lost[1] # {}
    /\ \A id \in lost[1] : RecordCount(id) = 1

\* C18: whenever analyze_text calls the scorers, the cleaned text has a
\* positive word count, and a result with word_count 0 has empty normalized
\* distributions.
C18_ScoredOnlyWithWords ==
    "analyze_text" \in applied =>
        /\ ScorerCalls(in_text, in_run) > 0 =>
               (~in_text.none /\ Len(split(SubSpaces(SubHash(in_text.chars)))) > 0)
        /\ (~out_analyze_text.raised /\ out_analyze_text.cleaned.word_count = 0) =>
               /\ out_analyze_text.normalized_sentiment = <<>>
               /\ out_analyze_text.normalized_emotion = <<>>
               /\ out_analyze_text.normalized_hate_speech = <<>>

\* C19: the analyzed_utc of a row is not earlier than the moment the page of
\* its post was fetched.
C19_AnalyzedAtNotBeforeFetch ==
    \A p \in Procs : \A i \in 1..Len(session[p]) :
        session[p][i].analyzed_utc >= fetched_at[p]

\* C20: a POST of a non-empty text to the analyze endpoint, as the API test
\* sends it (path "/analyze", the text in the JSON body) or as the route is
\* declared (path "/analyze/text", the text in the query), with scorers that
\* return, is answered with status 200 and an object that has the keys
\* "sentiment", "emotion" and "hate".
C20_AnalyzeEndpointAnswers ==
    ( /\ "dispatch" \in applied
      /\ in_request.method = "POST"
      /\ \/ in_request.path = "/analyze" /\ ~Blank(in_request.json)
         \/ in_request.path = "/analyze/text" /\ ~Blank(in_request.query)
      /\ in_run.sentiment.ok /\ in_run.emotion.ok /\ in_run.hate_speech.ok )
    => /\ out_response.status = 200
       /\ {"sentiment", "emotion", "hate"} \subseteq out_response.keys

\* C21: over a corpus that does not change during the run, every invocation of
\* analyze_posts and of analyze_comments that has started returns, whatever
\* scorers raise and whether or not a commit fails.
C21_InvocationTerminates ==
    /\ (pc["A"] # "idle") ~> (pc["A"] = "idle")
    /\ (c_pc # "idle") ~> (c_pc = "idle")

\* analyze_posts is about to fetch a page past the end after a page in which a
\* scorer raised, and analyze_comments stands after a commit
C21_Witness ==
    /\ pc["A"] = "fetch"
    /\ offset["A"] > 0
    /\ dirty["A"]
    /\ Unanalyzed # {}
    /\ offset["A"] >= Cardinality(Unanalyzed)

\* label top goes with the raw distribution d: "unknown" exactly for the empty
\* one, else a key of d of maximal score
TopOf(top, d) ==
    IF d = <<>> THEN top = "unknown"
    ELSE /\ top # "unknown"
         /\ \E i \in 1..Len(d) : top = d[i][1] /\ \A j \in 1..Len(d) : AtLeast(d, i, j)

\* C22: in every row of post_sentiments, committed or staged, each of the three
\* top labels is a key of maximal score of the row's raw distribution of that
\* dimension, and it is "unknown" exactly when that distribution is empty.
C22_TopLabelConsistent ==
    /\ \A r \in Rows :
          /\ TopOf(r.top_sentiment, r.sentiment_scores)
          /\ TopOf(r.top_emotion, r.emotion_scores)
          /\ TopOf(r.top_hate_category, r.hate_speech_scores)
    /\ \A p \in Procs : \A i \in 1..Len(session[p]) :
          /\ TopOf(session[p][i].top_sentiment, session[p][i].sentiment_scores)
          /\ TopOf(session[p][i].top_emotion, session[p][i].emotion_scores)
          /\ TopOf(session[p][i].top_hate_category, session[p][i].hate_speech_scores)

\* the table holds a row of an empty text, labelled "unknown", next to a row
\* with scores, whose hate label is the key of the largest score
C22_Witness ==
    \E r1, r2 \in Rows :
        /\ r1.hate_speech_scores = <<>>
        /\ r1.top_hate_category = "unknown"
        /\ r2.hate_speech_scores # <<>>
        /\ r2.top_hate_category = "none"

\* the posts table only grows at its end
PostsKept == Len(Post') >= Len(Post) /\ SubSeq(Post', 1, Len(Post)) = Post

\* a step in which an invocation of analyze_posts moves
BackfillStep == <<pc, locals>>' # <<pc, locals>>

\* C23: no step of analyze_posts changes the posts table, and no step at all
\* removes or alters a row of post_sentiments: every row stays as it is, and a
\* row that is added belongs to an existing post that had no row.
C23_BackfillFrame ==
    /\ [][BackfillStep => Post' = Post]_vars
    /\ [][PostsKept]_vars
    /\ [][\A r \in Rows : CopiesIn(r, PostSentiment') >= CopiesIn(r, PostSentiment)]_vars
    /\ [][\A r \in BagToSet(PostSentiment') :
              CopiesIn(r, PostSentiment') > CopiesIn(r, PostSentiment) =>
                  /\ r.post_id \in PostIds
                  /\ \A q \in Rows : q.post_id # r.post_id]_vars

\* an invocation has added a row to a table that held the row of another post
\* already, and that row is still there
C23_Witness ==
    /\ Cardinality(Rows) = 2
    /\ \E p \in Procs : Cardinality(made[p]) = 1 /\ pc[p] = "fetch"

\* number of rows of post_sentiments for post id in table t
RowsOf(t, id) ==
    LET S == {r \in BagToSet(t) : r.post_id = id} IN
    IF S = {} THEN 0 ELSE BagCardinality([r \in S |-> t[r]])

\* the rows of table t that belong to other posts than id
OtherRows(t, id) ==
    LET S == {r \in BagToSet(t) : r.post_id # id} IN [r \in S |-> t[r]]

\* C24: a call of analyze_post answers 404 for an unknown post and leaves the
\* table as it is; answers 500 and leaves the table as it is when the analysis
\* or the commit fails; and else answers 200 with exactly one row for the post
\* in the table, stamped with the present time, the former row of the post (if
\* any) replaced by it with its created_utc kept, and the rows of the other
\* posts untouched.  The posts table is never changed.
C24_RetriggerUpserts ==
    [][\A id \in RetriggerIds :
          analyze_post(id) =>
             /\ Post' = Post
             /\ out_response'.status \in {200, 404, 500}
             /\ (id \notin PostIds) <=> (out_response'.status = 404)
             /\ out_response'.status # 200 => PostSentiment' = PostSentiment
             /\ out_response'.status = 200 =>
                   /\ RowsOf(PostSentiment', id) = 1
                   /\ RowsOf(PostSentiment, id) <= 1
                   /\ OtherRows(PostSentiment', id) = OtherRows(PostSentiment, id)
                   /\ \A r \in BagToSet(PostSentiment') : r.post_id = id =>
                         /\ r.analyzed_utc = now
                         /\ r.created_utc = Post[id].created_utc
                         /\ \A q \in Rows : q.post_id = id => r.created_utc = q.created_utc]_vars

\* the re-trigger has answered 200 for a post whose row the running backfill
\* committed with its earlier clock reading: the row now carries the present
\* time and is still the only one of the post
C24_Witness ==
    /\ in_request.path = "/analyze/post/{post_id}"
    /\ out_response.status = 200
    /\ pc["A"] = "fetch"
    /\ in_request.post_id \in made["A"]
    /\ now > current_time["A"]
    /\ RecordCount(in_request.post_id) = 1
    /\ \A r \in Rows : r.post_id = in_request.post_id => r.analyzed_utc = now

\* ------------------------------------- the scheduled task analyze_comments
\* enhanced_sentiment_dag.py: batch_size = 100
dag_batch_size == 100

\* enhanced_sentiment_dag.py: `if comments.index(comment) % 10 == 0`
CommitEvery == 10

\* The task starts: session = SessionLocal(), current_time, batch_size = 100,
\* offset = 0.  It counts nothing and has no ceiling.
DagStartCommentsCall ==
    /\ c_pc = "idle"
    /\ c_pc' = "while"
    /\ c_batch_size' = dag_batch_size
    /\ c_offset' = 0
    /\ analyzed' = 0
    /\ UNCHANGED <<Comment, CommentSentiment, max_comments, total_comments, comments,
                   c_idx, c_session, backfill, agg, m_pc,
                   exit_code, cause, predict, dagposts>>

\* while True: the query of the page, break and session.close() when it is empty
DagWhileCommentsCall ==
    /\ c_pc = "while"
    /\ LET page == LimitOffset(NewestFirst(UnanalyzedComments), c_batch_size, c_offset) IN
       IF page # <<>>
       THEN /\ c_pc' = "loop"
            /\ comments' = page
            /\ c_idx' = 1
            /\ UNCHANGED <<total_comments, c_batch_size, c_offset, c_session>>
       ELSE FinishComments
    /\ UNCHANGED <<Comment, CommentSentiment, max_comments, analyzed, backfill, agg, m_pc,
                   exit_code, cause, predict, dagposts>>

\* One iteration of `for comment in comments`, the whole try block:
\* analyze_text(comment.body) and session.add(comment_sentiment), then
\* session.commit() when the position of the comment in the page is a multiple
\* of 10, the first comment of the page included.  A scorer that raises skips
\* the add and the commit.  A commit that raises is caught like any exception
\* of the block, but it leaves the session unusable: nothing more of this task
\* becomes durable and its last commit raises out of the task, so the task is
\* over as far as the tables can tell.
DagAnalyzeCommentCall ==
    /\ c_pc = "loop"
    /\ \E body \in Titles, run \in ScorerRuns, commits \in BOOLEAN :
          LET staged == Append(c_session, comments[c_idx])
              due == (c_idx - 1) % CommitEvery = 0
              last == c_idx + 1 > Len(comments)
          IN  IF analyze_text(body, run).raised
              THEN /\ c_idx' = c_idx + 1
                   /\ c_pc' = IF last THEN "commit" ELSE "loop"
                   /\ analyzed' = analyzed + 1
                   /\ UNCHANGED <<CommentSentiment, c_session, total_comments,
                                  c_batch_size, c_offset, comments>>
              ELSE IF ~due
              THEN /\ c_session' = staged
                   /\ c_idx' = c_idx + 1
                   /\ c_pc' = IF last THEN "commit" ELSE "loop"
                   /\ analyzed' = analyzed + 1
                   /\ UNCHANGED <<CommentSentiment, total_comments, c_batch_size,
                                  c_offset, comments>>
              ELSE IF commits
              THEN /\ CommentSentiment' = CommentSentiment \cup Range(staged)
                   /\ c_session' = <<>>
                   /\ c_idx' = c_idx + 1
                   /\ c_pc' = IF last THEN "commit" ELSE "loop"
                   /\ analyzed' = analyzed + 1
                   /\ UNCHANGED <<total_comments, c_batch_size, c_offset, comments>>
              ELSE /\ FinishComments
                   /\ analyzed' = analyzed + 1
                   /\ UNCHANGED CommentSentiment
    /\ UNCHANGED <<Comment, max_comments, backfill, agg, m_pc,
                   exit_code, cause, predict, dagposts>>

\* session.commit() after the loop; offset += batch_size
DagCommitCommentsCall ==
    /\ c_pc = "commit"
    /\ CommentSentiment' = CommentSentiment \cup Range(c_session)
    /\ c_session' = <<>>
    /\ c_offset' = c_offset + c_batch_size
    /\ c_pc' = "while"
    /\ UNCHANGED <<Comment, max_comments, total_comments, c_batch_size, comments, c_idx,
                   analyzed, backfill, agg, m_pc,
                   exit_code, cause, predict, dagposts>>

\* session.commit() after the loop raises: nothing catches it, the task fails
DagCommitCommentsFailsCall ==
    /\ c_pc = "commit"
    /\ FinishComments
    /\ UNCHANGED <<Comment, CommentSentiment, max_comments, analyzed, backfill, agg, m_pc,
                   exit_code, cause, predict, dagposts>>

\* the steps of the task run by itself
DagStartComments == DagStartCommentsCall /\ UNCHANGED sched

DagWhileComments == DagWhileCommentsCall /\ UNCHANGED sched

DagAnalyzeComment == DagAnalyzeCommentCall /\ UNCHANGED sched

DagCommitComments == DagCommitCommentsCall /\ UNCHANGED sched

DagCommitCommentsFails == DagCommitCommentsFailsCall /\ UNCHANGED sched

\* The task is interrupted while it works on a page: what it has staged and
\* not committed is gone with its session.
DagKillComments ==
    /\ c_pc \in {"loop", "commit"}
    /\ FinishComments
    /\ UNCHANGED <<Comment, CommentSentiment, max_comments, analyzed, backfill, agg, script>>

\* runs of the scheduled task, to their end or interrupted, over a growing table
NextDagComments ==
    \/ InsertComment
    \/ DagStartComments
    \/ DagWhileComments
    \/ DagAnalyzeComment
    \/ DagCommitComments
    \/ DagCommitCommentsFails
    \/ DagKillComments

SpecDagComments == Init /\ [][NextDagComments]_vars

\* C25: when the scheduled task analyze_comments ends while it is working on a
\* page (in its loop or before the commit that follows the loop), no comment
\* of that page has a row in comment_sentiments.
C25_PageAllOrNothing ==
    [][(c_pc \in {"loop", "commit"} /\ c_pc' = "idle")
          => Range(comments) \cap CommentSentiment' = {}]_vars

\* ------------------------------------------------------ the lexicon scorers
\* The keyword counts are whole numbers and the valences of VADER are taken on
\* a grid of tenths (compound on a grid of hundredths), so every quantity of the
\* two scorers is a whole number of tenths and is kept as that number.
EmotionLabels == <<"joy", "sadness", "anger", "fear", "surprise", "other">>

HateLabels == <<"hateful", "offensive", "targeted_hate", "none">>

\* pos, neg, neu of sia.polarity_scores(text), in tenths
Valences == {0, 5, 10}

\* compound, in hundredths: both sides of the two thresholds, and the ends
Compounds == {-100, -5, -4, 4, 5, 100}

Vaders == [pos : Valences, neg : Valences, neu : Valences, compound : Compounds]

LexiconInputs ==
    [scorer : {"analyze_emotion"}, vader : Vaders,
     counts : [Range(EmotionLabels) -> 0..MaxMatches]]
    \cup [scorer : {"analyze_hate_speech"}, vader : Vaders,
          counts : [Range(HateLabels) -> 0..MaxMatches]]

Largest(a, b) == IF a > b THEN a ELSE b

\* sum(counts.values()), over the labels in their order
RECURSIVE SumOver(_, _, _)
SumOver(counts, labels, n) ==
    IF n = 0 THEN 0 ELSE counts[labels[n]] + SumOver(counts, labels, n - 1)

\* total = sum(counts.values()) or 1; {label: count / total}
Probabilities(counts, labels) ==
    LET sum == SumOver(counts, labels, Len(labels))
        total == IF sum = 0 THEN 10 ELSE sum
    IN  [i \in 1..Len(labels) |-> <<labels[i], <<counts[labels[i]], total>>>>]

\* the three branches of analyze_emotion on the counts, in tenths
EmotionWeighted(c, v, positive, negative) ==
    IF positive
    THEN [c EXCEPT !["joy"] = Largest(c["joy"], 1) * (10 + v.pos),
                   !["sadness"] = c["sadness"] * 8,
                   !["anger"] = c["anger"] * 8,
                   !["fear"] = c["fear"] * 8,
                   !["surprise"] = c["surprise"] * 10,
                   !["other"] = c["other"] * 10]
    ELSE IF negative
    THEN [c EXCEPT !["sadness"] = Largest(c["sadness"], 1) * (10 + v.neg),
                   !["anger"] = Largest(c["anger"], 1) * (10 + v.neg),
                   !["fear"] = Largest(c["fear"], 1) * (10 + v.neg),
                   !["joy"] = c["joy"] * 8,
                   !["surprise"] = c["surprise"] * 10,
                   !["other"] = c["other"] * 10]
    ELSE [c EXCEPT !["other"] = Largest(c["other"], 1) * (10 + v.neu),
                   !["joy"] = c["joy"] * 10,
                   !["sadness"] = c["sadness"] * 10,
                   !["anger"] = c["anger"] * 10,
                   !["fear"] = c["fear"] * 10,
                   !["surprise"] = c["surprise"] * 10]

\* an analyze_emotion whose positive branch needs compound > 0.05
analyze_emotion_StrictlyAbove(c, v) ==
    Probabilities(EmotionWeighted(c, v, v.compound > 5, v.compound <= -5), EmotionLabels)

\* analyze_emotion after the counting: compound >= 0.05 boosts joy and damps
\* sadness, anger and fear; compound <= -0.05 boosts those three and damps joy;
\* else "other" is boosted; then the division by the total
analyze_emotion(c, v) ==
    Probabilities(EmotionWeighted(c, v, v.compound >= 5, v.compound <= -5), EmotionLabels)

\* hate_counts after the adjustment by negativity and positivity, in tenths
HateAdjusted(c, v) ==
    [c EXCEPT !["hateful"] = c["hateful"] * (10 + v.neg),
              !["offensive"] = c["offensive"] * (10 + v.neg),
              !["targeted_hate"] = c["targeted_hate"] * (10 + v.neg),
              !["none"] = c["none"] * (10 + v.pos) + (10 - v.neg)]

HateTotal(c, v) == SumOver(HateAdjusted(c, v), HateLabels, Len(HateLabels))

\* an analyze_hate_speech without `if sum(...) < 0.5: hate_counts["none"] = 1.0`
analyze_hate_speech_NoFloor(c, v) == Probabilities(HateAdjusted(c, v), HateLabels)

\* analyze_hate_speech after the counting
analyze_hate_speech(c, v) ==
    LET adjusted == HateAdjusted(c, v)
        floored == IF HateTotal(c, v) < 5 THEN [adjusted EXCEPT !["none"] = 10]
                   ELSE adjusted
    IN  Probabilities(floored, HateLabels)

InitLexicon ==
    /\ InitBackfill
    /\ InitComments
    /\ InitScript
    /\ applied = {}
    /\ out_normalize_scores = <<>>
    /\ out_normalize = <<>>
    /\ out_top = "unset"
    /\ out_analyze_text = <<>>
    /\ out_response = <<>>
    /\ out_lexicon = <<>>
    /\ in_scores = <<>>
    /\ in_word_count = 0
    /\ in_text = None
    /\ in_run = [sentiment |-> Raises, emotion |-> Raises, hate_speech |-> Raises]
    /\ in_request = NoRequest
    /\ in_lexicon \in LexiconInputs

\* a call of analyze_emotion on a text with these counts and valences
ApplyEmotion ==
    /\ in_lexicon.scorer = "analyze_emotion"
    /\ "analyze_emotion" \notin applied
    /\ applied' = applied \cup {"analyze_emotion"}
    /\ out_lexicon' = analyze_emotion(in_lexicon.counts, in_lexicon.vader)
    /\ UNCHANGED <<backfill, cmt, script, in_scores, in_word_count, out_normalize_scores,
                   out_normalize, out_top, in_text, in_run, out_analyze_text, in_request,
                   out_response, in_lexicon>>

\* a call of analyze_hate_speech on a text with these counts and valences
ApplyHateSpeech ==
    /\ in_lexicon.scorer = "analyze_hate_speech"
    /\ "analyze_hate_speech" \notin applied
    /\ applied' = applied \cup {"analyze_hate_speech"}
    /\ out_lexicon' = analyze_hate_speech(in_lexicon.counts, in_lexicon.vader)
    /\ UNCHANGED <<backfill, cmt, script, in_scores, in_word_count, out_normalize_scores,
                   out_normalize, out_top, in_text, in_run, out_analyze_text, in_request,
                   out_response, in_lexicon>>

NextLexicon == ApplyEmotion \/ ApplyHateSpeech

SpecLexicon == InitLexicon /\ [][NextLexicon]_vars

\* the numerators of a distribution added up
RECURSIVE Mass(_, _)
Mass(d, n) == IF n = 0 THEN 0 ELSE d[n][2][1] + Mass(d, n - 1)

\* a distribution over the labels, in their order: no negative score, one
\* divisor that is not zero, and the scores add up to 1
Distribution(d, labels) ==
    /\ Len(d) = Len(labels)
    /\ \A i \in 1..Len(d) :
          /\ d[i][1] = labels[i]
          /\ d[i][2][1] >= 0
          /\ d[i][2][2] > 0
          /\ d[i][2][2] = d[1][2][2]
    /\ Mass(d, Len(d)) = d[1][2][2]

\* C27: whatever the keyword counts and the valences, analyze_emotion returns
\* a distribution over its six labels and analyze_hate_speech one over its four
\* labels: no negative score, the scores add up to 1 (so the total they are
\* divided by was not zero); and when the adjusted hate counts add up to less
\* than 0.5 the label "none" has score 1 and the others 0.
C27_LexiconDistributions ==
    /\ "analyze_emotion" \in applied => Distribution(out_lexicon, EmotionLabels)
    /\ "analyze_hate_speech" \in applied =>
          /\ Distribution(out_lexicon, HateLabels)
          /\ HateTotal(in_lexicon.counts, in_lexicon.vader) < 5 =>
                /\ out_lexicon[4][2][1] = out_lexicon[4][2][2]
                /\ \A i \in 1..3 : out_lexicon[i][2][1] = 0

\* a text without any hate keyword and with negativity 1 has been scored: the
\* adjusted counts add up to 0, and "none" has the whole mass
C27_Witness ==
    /\ "analyze_hate_speech" \in applied
    /\ HateTotal(in_lexicon.counts, in_lexicon.vader) = 0
    /\ top_category(out_lexicon) = "none"
    /\ out_lexicon[4][2] = <<10, 10>>

\* C28: for a text of positive valence (compound >= 0.05) with joy keywords and
\* no keyword of another emotion, the top label of what analyze_emotion returns
\* is joy.
C28_JoyOnTop ==
    ( /\ "analyze_emotion" \in applied
      /\ in_lexicon.vader.compound >= 5
      /\ in_lexicon.counts["joy"] > 0
      /\ \A i \in 2..Len(EmotionLabels) : in_lexicon.counts[EmotionLabels[i]] = 0 )
    => /\ top_category(out_lexicon) = "joy"
       /\ \A i \in 2..Len(EmotionLabels) : Above(out_lexicon, 1, i)

\* a text with one joy keyword and compound exactly 0.05 has been scored, and
\* joy has the whole mass
C28_Witness ==
    /\ "analyze_emotion" \in applied
    /\ in_lexicon.vader.compound = 5
    /\ in_lexicon.vader.neu > 0
    /\ in_lexicon.counts["joy"] = 1
    /\ \A i \in 2..Len(EmotionLabels) : in_lexicon.counts[EmotionLabels[i]] = 0
    /\ top_category(out_lexicon) = "joy"
    /\ out_lexicon[1][2][1] = out_lexicon[1][2][2]

\* ------------------------------------------------ the harvest endpoint
\* what Reddit lists for a subreddit on one call: the submissions that are new
\* to the tables, each with the number of its comments
Submissions ==
    UNION {[1..n -> [title : Titles, created_utc : 1..MaxTime, comments : 0..1]] :
              n \in 0..MaxSubmissions}

RECURSIVE CommentsOf(_, _)
CommentsOf(subs, n) == IF n = 0 THEN 0 ELSE subs[n].comments + CommentsOf(subs, n - 1)

\* What fetch_subreddit_data hands back to its caller.  The function ends with
\* session.close(); its `return fetched` is commented out, so the list it has
\* built is dropped and the caller gets None.
fetch_subreddit_data_result(fetched) == None

\* `for post in posts: analyze_post(post.id, db)` with its try/except around
\* each post: the table after the loop and the number of posts analyzed
RECURSIVE HarvestAnalysis(_, _, _, _)
HarvestAnalysis(table, ids, runs, n) ==
    IF n = 0 THEN [table |-> PostSentiment, analyzed |-> 0]
    ELSE LET before == HarvestAnalysis(table, ids, runs, n - 1)
             results == analyze_text(table[ids[n]].title, runs[n])
         IN  IF results.raised THEN before
             ELSE [table |-> before.table
                                (+) SetToBag({NewPostSentiment(ids[n], results, now)}),
                   analyzed |-> before.analyzed + 1]

\* POST /harvest/{subreddit}: fetch_subreddit_data merges the submissions and
\* their comments and commits them (an IntegrityError of the commit is rolled
\* back and printed, any other failure of Reddit or of the store raises); then
\* the loop over what it returned, and the counts.  Every exception, the one of
\* iterating over None included, ends in the outer handler: 500.
harvest ==
    /\ in_request' = [method |-> "POST", path |-> "/harvest/{subreddit}",
                      query |-> None, json |-> None]
    /\ \E subs \in Submissions, reachable \in BOOLEAN, commits \in BOOLEAN :
          LET stored == IF commits
                        THEN Post \o [i \in 1..Len(subs) |->
                                        [title |-> subs[i].title,
                                         created_utc |-> subs[i].created_utc]]
                        ELSE Post
              fetched == [i \in 1..Len(subs) |-> Len(Post) + i]
              returned == fetch_subreddit_data_result(fetched)
          IN  /\ Len(Post) + Len(subs) <= MaxHarvestPosts
              /\ Comment + CommentsOf(subs, Len(subs)) <= MaxComments
              /\ IF ~reachable
                 THEN /\ out_response' = Response(500, {"detail"})
                      /\ UNCHANGED <<Post, Comment, PostSentiment>>
                 ELSE /\ Post' = stored
                      /\ Comment' = IF commits THEN Comment + CommentsOf(subs, Len(subs))
                                    ELSE Comment
                      /\ IF returned = None
                         THEN /\ out_response' = Response(500, {"detail"})
                              /\ UNCHANGED PostSentiment
                         ELSE \E runs \in [1..MaxSubmissions -> ScorerRuns] :
                              LET done == HarvestAnalysis(stored, returned, runs,
                                                          Len(returned)) IN
                              /\ PostSentiment' = done.table
                              /\ out_response' =
                                    [status |-> 200,
                                     keys |-> {"harvested", "subreddit", "analyzed",
                                               "message"},
                                     harvested |-> Len(returned),
                                     analyzed |-> done.analyzed]
    /\ dirty' = [p \in Procs |-> Active(p)]
    /\ exit' = "none"
    /\ lost' = NoLoss
    /\ made' = [p \in Procs |-> IF Active(p) THEN made[p] ELSE {}]
    /\ after' = [p \in Procs |-> IF Active(p) THEN after[p] ELSE "none"]
    /\ redo' = [p \in Procs |-> IF Active(p) THEN redo[p] ELSE {}]
    /\ UNCHANGED <<pc, locals, scored, failed, clock, CommentSentiment, c_pc, max_comments,
                   total_comments, c_batch_size, c_offset, comments, c_idx, c_session,
                   analyzed, script, in_scores, in_word_count, applied,
                   out_normalize_scores, out_normalize, out_top, in_lexicon, out_lexicon,
                   in_text, in_run, out_analyze_text>>

\* harvest requests one after the other
NextHarvest == harvest

SpecHarvest == Init /\ [][NextHarvest]_vars

\* C29: a harvest request whose harvest succeeds (its submissions are in the
\* posts table afterwards) is answered with status 200, with the number of
\* harvested posts and with a number of analyzed posts that is not larger.
C29_HarvestReportsCounts ==
    [][(in_request'.path = "/harvest/{subreddit}" /\ Len(Post') > Len(Post))
          => /\ out_response'.status = 200
             /\ out_response'.harvested = Len(Post') - Len(Post)
             /\ out_response'.analyzed <= out_response'.harvested]_vars

\* -------------------------------------------- the task predict_emotions
\* the two DAG files that define it: enhanced_sentiment_dag.py wraps the work
\* on each post in try/except, sentiment_dag.py does not
DagFiles == {"enhanced", "legacy"}

\* session.close(), or the exception leaving the function: the variables of
\* the call are gone; which posts it classified stays on record
PredictReturn ==
    /\ pe_pc' = "idle"
    /\ pe_posts' = <<>>
    /\ pe_idx' = 1
    /\ pe_session' = <<>>
    /\ UNCHANGED <<pe_dag, pe_ok>>

\* the rows of the table predictions that belong to a post
PredictionsOf(table, id) == Cardinality({i \in 1..Len(table) : table[i].post_id = id})

\* predict_emotions up to its loop: the pipeline, the session and
\* posts = session.query(Post).all(), every post whether or not it has
\* predictions already, in the order the store returns them
PredictStartCall(d) ==
    /\ pe_pc = "idle"
    /\ pe_dag' = d
    /\ pe_posts' \in Perms(PostIds)
    /\ pe_idx' = 1
    /\ pe_session' = <<>>
    /\ pe_ok' = {}
    /\ pe_pc' = IF Len(Post) = 0 THEN "commit" ELSE "loop"
    /\ UNCHANGED <<Prediction, backfill, cmt, agg, m_pc, exit_code, cause, dagposts>>

\* One iteration of `for post in posts`: pipe(post.title[:512]) and
\* session.add(pred).  When the pipeline raises, the enhanced DAG logs the
\* error and goes on with the next post; in sentiment_dag.py nothing catches
\* it, and the call ends there without a commit.
PredictItemCall ==
    /\ pe_pc = "loop"
    /\ \E classified \in BOOLEAN :
          LET post == pe_posts[pe_idx]
              next == IF pe_idx + 1 > Len(pe_posts) THEN "commit" ELSE "loop"
          IN  IF classified
              THEN /\ pe_session' = Append(pe_session,
                                           [post_id |-> post, created_utc |-> now])
                   /\ pe_ok' = pe_ok \cup {post}
                   /\ pe_idx' = pe_idx + 1
                   /\ pe_pc' = next
                   /\ UNCHANGED <<pe_dag, pe_posts>>
              ELSE IF pe_dag = "enhanced"
              THEN /\ pe_idx' = pe_idx + 1
                   /\ pe_pc' = next
                   /\ UNCHANGED <<pe_dag, pe_posts, pe_session, pe_ok>>
              ELSE PredictReturn
    /\ UNCHANGED <<Prediction, backfill, cmt, agg, m_pc, exit_code, cause, dagposts>>

\* a commit that adds a row only for the posts that have no prediction yet
PredictCommitCall_Incremental ==
    /\ pe_pc = "commit"
    /\ Prediction' = Prediction \o
          SelectSeq(pe_session, LAMBDA r : PredictionsOf(Prediction, r.post_id) = 0)
    /\ PredictReturn
    /\ UNCHANGED <<backfill, cmt, agg, m_pc, exit_code, cause, dagposts>>

\* session.commit(); session.close(): the table has no constraint but its
\* autoincremented id, every row that was added is stored
PredictCommitCall ==
    /\ pe_pc = "commit"
    /\ Prediction' = Prediction \o pe_session
    /\ PredictReturn
    /\ UNCHANGED <<backfill, cmt, agg, m_pc, exit_code, cause, dagposts>>

\* session.commit() raises (the store is lost): nothing is stored
PredictCommitFailsCall ==
    /\ pe_pc = "commit"
    /\ PredictReturn
    /\ UNCHANGED <<Prediction, backfill, cmt, agg, m_pc, exit_code, cause, dagposts>>

\* the task run by itself, once per run of its DAG
PredictStart ==
    /\ dag_run < MaxRuns
    /\ dag_run' = dag_run + 1
    /\ \E d \in DagFiles : PredictStartCall(d)
    /\ UNCHANGED <<task, try_number>>

PredictItem == PredictItemCall /\ UNCHANGED sched

PredictCommit == PredictCommitCall /\ UNCHANGED sched

PredictCommitFails == PredictCommitFailsCall /\ UNCHANGED sched

\* the posts are harvested before the first run
HarvestForPredict ==
    /\ dag_run = 0
    /\ InsertPost(MaxPredictPosts, 1)

NextPredict ==
    \/ HarvestForPredict
    \/ PredictStart
    \/ PredictItem
    \/ PredictCommit
    \/ PredictCommitFails

SpecPredict == Init /\ [][NextPredict]_vars

\* C30: a call of predict_emotions that reaches its commit adds exactly one
\* prediction for each post that it classified, whatever predictions the post
\* has already, and none for the others; no other step of the task changes the
\* table; and in the enhanced DAG no post of the loop ends the call or drops
\* what is staged: a post whose classification fails is passed over and the
\* loop goes on to the commit.
C30_PredictionsPilePerRun ==
    /\ [][(pe_pc = "commit" /\ Prediction' # Prediction) =>
             \A id \in PostIds :
                PredictionsOf(Prediction', id) =
                   PredictionsOf(Prediction, id) + (IF id \in pe_ok THEN 1 ELSE 0)]_vars
    /\ [][pe_pc # "commit" => Prediction' = Prediction]_vars
    /\ [][(pe_pc = "loop" /\ pe_dag = "enhanced") =>
             /\ pe_pc' \in {"loop", "commit"}
             /\ pe_idx' = pe_idx + 1
             /\ Len(pe_session') >= Len(pe_session)
             /\ SubSeq(pe_session', 1, Len(pe_session)) = pe_session]_vars

\* two runs have committed: the first post has two predictions; the second,
\* whose classification failed in the last run, which was one of the enhanced
\* DAG, has the one of the run before
C30_Witness ==
    /\ pe_pc = "idle"
    /\ pe_dag = "enhanced"
    /\ Len(Post) = 2
    /\ pe_ok = {1}
    /\ PredictionsOf(Prediction, 1) = 2
    /\ PredictionsOf(Prediction, 2) = 1

\* ---------------------------------------- the task analyze_posts of the DAG
\* what a write to the tables does to the record kept of the backfill
Disturbs ==
    /\ dirty' = [p \in Procs |-> Active(p)]
    /\ exit' = "none"
    /\ lost' = NoLoss
    /\ made' = [p \in Procs |-> IF Active(p) THEN made[p] ELSE {}]
    /\ after' = [p \in Procs |-> IF Active(p) THEN after[p] ELSE "none"]
    /\ redo' = [p \in Procs |-> IF Active(p) THEN redo[p] ELSE {}]

\* session.close(), or the exception leaving the function
DagPostsReturn ==
    /\ dp_pc' = "idle"
    /\ dp_posts' = <<>>
    /\ dp_idx' = 1
    /\ dp_session' = <<>>

\* analyze_posts up to its loop: the session, current_time and the query of
\* every post without a sentiment row, in one list and in the order the store
\* returns them (the query has no order_by)
DagStartPostsCall ==
    /\ dp_pc = "idle"
    /\ \E found \in Perms(Unanalyzed) :
          /\ dp_posts' = found
          /\ dp_pc' = IF Unanalyzed = {} THEN "commit" ELSE "loop"
    /\ dp_idx' = 1
    /\ dp_session' = <<>>
    /\ UNCHANGED <<backfill, cmt, agg, m_pc, exit_code, cause, predict>>

\* One iteration of `for post in posts`, the whole try block: analyze_text on
\* the title, session.add(post_sentiment), and session.commit() when the
\* position of the post in the list is a multiple of 10.  A scorer that raises
\* skips the add and the commit; a commit that raises leaves the session
\* unusable, and the last commit of the task then raises out of it.
DagAnalyzePostCall ==
    /\ dp_pc = "loop"
    /\ \E run \in ScorerRuns, commits \in BOOLEAN :
          LET post_id == dp_posts[dp_idx]
              results == analyze_text(Post[post_id].title, run)
              staged == Append(dp_session, NewPostSentiment(post_id, results, now))
              due == (dp_idx - 1) % CommitEvery = 0
              next == IF dp_idx + 1 > Len(dp_posts) THEN "commit" ELSE "loop"
          IN  IF results.raised
              THEN /\ dp_idx' = dp_idx + 1
                   /\ dp_pc' = next
                   /\ UNCHANGED <<PostSentiment, dp_posts, dp_session, exit, made, dirty,
                                  lost, after, redo>>
              ELSE IF ~due
              THEN /\ dp_session' = staged
                   /\ dp_idx' = dp_idx + 1
                   /\ dp_pc' = next
                   /\ UNCHANGED <<PostSentiment, dp_posts, exit, made, dirty, lost, after,
                                  redo>>
              ELSE IF commits
              THEN /\ PostSentiment' = PostSentiment (+) SetToBag(Range(staged))
                   /\ dp_session' = <<>>
                   /\ dp_idx' = dp_idx + 1
                   /\ dp_pc' = next
                   /\ Disturbs
                   /\ UNCHANGED dp_posts
              ELSE /\ DagPostsReturn
                   /\ UNCHANGED <<PostSentiment, exit, made, dirty, lost, after, redo>>
    /\ UNCHANGED <<Post, pc, locals, scored, failed, clock, cmt, agg, m_pc, exit_code,
                   cause, predict>>

\* session.commit() after the loop; session.close()
DagCommitPostsCall ==
    /\ dp_pc = "commit"
    /\ PostSentiment' = PostSentiment (+) SetToBag(Range(dp_session))
    /\ Disturbs
    /\ DagPostsReturn
    /\ UNCHANGED <<Post, pc, locals, scored, failed, clock, cmt, agg, m_pc, exit_code,
                   cause, predict>>

\* session.commit() after the loop raises: nothing catches it
DagCommitPostsFailsCall ==
    /\ dp_pc = "commit"
    /\ DagPostsReturn
    /\ UNCHANGED <<backfill, cmt, agg, m_pc, exit_code, cause, predict>>

\* ------------------------------------------------- the enhanced DAG, a run
\* default_args: "retries": 1
Retries == 1

\* t1 >> [t2, t3] >> t4, with the operators' default trigger rule: a task
\* instance is run when every task upstream of it has succeeded
Upstream_PostsOnly(t) ==
    CASE t = "fetch_reddit" -> {}
      [] t = "predict_emotion_legacy" -> {"fetch_reddit"}
      [] t = "analyze_posts" -> {"fetch_reddit"}
      [] t = "analyze_comments" -> {"analyze_posts"}

Upstream(t) ==
    CASE t = "fetch_reddit" -> {}
      [] t = "predict_emotion_legacy" -> {"fetch_reddit"}
      [] t = "analyze_posts" -> {"fetch_reddit"}
      [] t = "analyze_comments" -> {"predict_emotion_legacy", "analyze_posts"}

Over == {"success", "failed", "upstream_failed"}

CanStart(t) ==
    /\ dag_run > 0
    /\ task[t] \in {"none", "up_for_retry"}
    /\ \A u \in Upstream(t) : task[u] = "success"

Started(t) ==
    /\ task' = [task EXCEPT ![t] = "running"]
    /\ try_number' = [try_number EXCEPT ![t] = @ + 1]
    /\ UNCHANGED dag_run

Succeeded(t) ==
    /\ task[t] = "running"
    /\ task' = [task EXCEPT ![t] = "success"]
    /\ UNCHANGED <<try_number, dag_run>>

\* the callable raised: the instance is tried again while it has retries left
Failed(t) ==
    /\ task[t] = "running"
    /\ task' = [task EXCEPT ![t] = IF try_number[t] <= Retries THEN "up_for_retry"
                                   ELSE "failed"]
    /\ UNCHANGED <<try_number, dag_run>>

\* schedule_interval "@daily": the next run, when the one before is over
DagRunStart ==
    /\ dag_run < MaxDagRuns
    /\ dag_run = 0 \/ \A t \in Tasks : task[t] \in Over
    /\ dag_run' = dag_run + 1
    /\ task' = [t \in Tasks |-> "none"]
    /\ try_number' = [t \in Tasks |-> 0]
    /\ UNCHANGED <<backfill, cmt, agg, m_pc, exit_code, cause, predict, dagposts>>

\* a task below one that has failed for good is not run
UpstreamFailed ==
    /\ \E t \in Tasks :
          /\ task[t] = "none"
          /\ \E u \in Upstream(t) : task[u] \in {"failed", "upstream_failed"}
          /\ task' = [task EXCEPT ![t] = "upstream_failed"]
    /\ UNCHANGED <<try_number, dag_run, backfill, cmt, agg, m_pc, exit_code, cause,
                   predict, dagposts>>

\* what Reddit lists during a run: submissions that differ in nothing but the
\* number of their comments
DagSubmissions ==
    {subs \in Submissions :
        \A i \in 1..Len(subs) :
           subs[i].title = Str(<<"x", " ", "x">>) /\ subs[i].created_utc = 1}

\* fetch_reddit: fetch_subreddit_data("CryptoCurrency", 100) as one step of the
\* worker, the submissions merged and committed or the call raising
RunFetchReddit ==
    /\ CanStart("fetch_reddit")
    /\ Started("fetch_reddit")
    /\ UNCHANGED <<backfill, cmt, agg, m_pc, exit_code, cause, predict, dagposts>>

FetchRedditReturns ==
    /\ task["fetch_reddit"] = "running"
    /\ \E subs \in DagSubmissions, reachable \in BOOLEAN, commits \in BOOLEAN :
          /\ Len(Post) + Len(subs) <= MaxDagPosts
          /\ Comment + CommentsOf(subs, Len(subs)) <= MaxDagComments
          /\ IF reachable
             THEN /\ Post' = IF commits
                             THEN Post \o [i \in 1..Len(subs) |->
                                             [title |-> subs[i].title,
                                              created_utc |-> subs[i].created_utc]]
                             ELSE Post
                  /\ Comment' = IF commits THEN Comment + CommentsOf(subs, Len(subs))
                                ELSE Comment
                  /\ Succeeded("fetch_reddit")
             ELSE /\ UNCHANGED <<Post, Comment>>
                  /\ Failed("fetch_reddit")
    /\ Disturbs
    /\ UNCHANGED <<PostSentiment, pc, locals, scored, failed, clock, CommentSentiment,
                   c_pc, max_comments, total_comments, c_batch_size, c_offset, comments,
                   c_idx, c_session, analyzed, agg, m_pc, exit_code, cause, predict,
                   dagposts>>

\* predict_emotion_legacy
RunPredictEmotions ==
    /\ CanStart("predict_emotion_legacy")
    /\ Started("predict_emotion_legacy")
    /\ PredictStartCall("enhanced")

PredictEmotionsSucceeds ==
    /\ PredictCommitCall
    /\ Succeeded("predict_emotion_legacy")

PredictEmotionsFails ==
    /\ PredictCommitFailsCall
    /\ Failed("predict_emotion_legacy")

\* analyze_posts
RunAnalyzePosts ==
    /\ CanStart("analyze_posts")
    /\ Started("analyze_posts")
    /\ DagStartPostsCall

AnalyzePostsItem ==
    /\ DagAnalyzePostCall
    /\ IF dp_pc' = "idle" THEN Failed("analyze_posts") ELSE UNCHANGED sched

AnalyzePostsSucceeds ==
    /\ DagCommitPostsCall
    /\ Succeeded("analyze_posts")

AnalyzePostsFails ==
    /\ DagCommitPostsFailsCall
    /\ Failed("analyze_posts")

\* analyze_comments
RunAnalyzeComments ==
    /\ CanStart("analyze_comments")
    /\ Started("analyze_comments")
    /\ DagStartCommentsCall

AnalyzeCommentsPage ==
    /\ DagWhileCommentsCall
    /\ IF c_pc' = "idle" THEN Succeeded("analyze_comments") ELSE UNCHANGED sched

AnalyzeCommentsItem ==
    /\ DagAnalyzeCommentCall
    /\ IF c_pc' = "idle" THEN Failed("analyze_comments") ELSE UNCHANGED sched

AnalyzeCommentsFails ==
    /\ DagCommitCommentsFailsCall
    /\ Failed("analyze_comments")

NextDag ==
    \/ DagRunStart
    \/ UpstreamFailed
    \/ RunFetchReddit
    \/ FetchRedditReturns
    \/ RunPredictEmotions
    \/ PredictItem
    \/ PredictEmotionsSucceeds
    \/ PredictEmotionsFails
    \/ RunAnalyzePosts
    \/ AnalyzePostsItem
    \/ AnalyzePostsSucceeds
    \/ AnalyzePostsFails
    \/ RunAnalyzeComments
    \/ AnalyzeCommentsPage
    \/ AnalyzeCommentsItem
    \/ DagCommitComments
    \/ AnalyzeCommentsFails

SpecDag == Init /\ [][NextDag]_vars

\* a task instance that has been handed to a worker in this run
HasStarted(t) == task[t] \in {"running", "success", "failed", "up_for_retry"}

\* C26: in every run of the enhanced DAG, predict_emotion_legacy and
\* analyze_posts have started, and their code is at work, only when
\* fetch_reddit has succeeded; analyze_comments has started, and its code is
\* at work, only when both of them have succeeded and neither is at work; a
\* step of predict_emotions changes no table but predictions, and a step of
\* analyze_posts no table but post_sentiments.
C26_DagOrder ==
    /\ [](/\ \A t \in {"predict_emotion_legacy", "analyze_posts"} :
                HasStarted(t) => task["fetch_reddit"] = "success"
          /\ HasStarted("analyze_comments") =>
                /\ task["predict_emotion_legacy"] = "success"
                /\ task["analyze_posts"] = "success"
          /\ pe_pc # "idle" =>
                task["fetch_reddit"] = "success" /\ task["predict_emotion_legacy"] = "running"
          /\ dp_pc # "idle" =>
                task["fetch_reddit"] = "success" /\ task["analyze_posts"] = "running"
          /\ c_pc # "idle" =>
                /\ task["analyze_comments"] = "running"
                /\ pe_pc = "idle" /\ dp_pc = "idle")
    /\ [][predict' # predict =>
             <<Post, PostSentiment, Comment, CommentSentiment>>'
                = <<Post, PostSentiment, Comment, CommentSentiment>>]_vars
    /\ [][dagposts' # dagposts =>
             <<Post, Prediction, Comment, CommentSentiment>>'
                = <<Post, Prediction, Comment, CommentSentiment>>]_vars

\* predict_emotion_legacy and analyze_posts at work together: analyze_posts has
\* committed the row of its first post while predict_emotions holds a
\* prediction that it has not committed yet
C26_Witness ==
    /\ task["predict_emotion_legacy"] = "running"
    /\ task["analyze_posts"] = "running"
    /\ pe_pc = "commit"
    /\ pe_session # <<>>
    /\ dp_pc = "commit"
    /\ Rows # {}
    /\ Prediction = <<>>

====
